---- MODULE Spec2Model ----
(***************************************************************************)
(* Foreign-table storage: ForeignStorageMgr (the pull -> populate adapter  *)
(* and the refresh engine) over the foreign storage cache and the data     *)
(* wrappers.  One action per manager operation; the cache and the wrapper  *)
(* are modelled by their contracts.                                        *)
(***************************************************************************)
EXTENDS Integers, Sequences, FiniteSets, TLC

\* ------------------------------------------------------------------ bounds
NumTables == 2
MaxFrags == 2
NumVersions == 2
MaxFaultCall == 2

\* ------------------------------------------------------- program constants
MAX_REFRESH_TIME_IN_SECONDS == 3600

\* ---------------------------------------------------------------- values
NoBuf == [buf |-> "nullptr"]
Empty == [buf |-> "empty"]
NoWrapper == [exists |-> FALSE, scanned |-> 0, restored |-> FALSE]

Tables == {<<1, tb>> : tb \in 1..NumTables}

\* The table the queries and refreshes of Spec are about; the other tables of
\* the catalog are idle there.
QueriedTables == {<<1, 1>>}
Frags == 0..(MaxFrags - 1)
Versions == 0..(NumVersions - 1)
Sources == [frags : 1..MaxFrags, ver : Versions]

IdleSource == [frags |-> 1, ver |-> 0]

\* ------------------------------------------------- chunk keys and schema
\* Columns of every foreign table: 1 is a fixed-length logical column that
\* comes with one more physical column, 2, which is variable-length.
Columns == {1, 2}

getLogicalColumn(c) == 1

get_physical_cols(c) == IF c = 1 THEN 1 ELSE 0

is_varlen_indeed(c) == c = 2

TableKeyOf(k) == <<k[1], k[2]>>

ColumnOf(k) == k[3]

FragmentOf(k) == k[4]

isVarLenKey(k) == Len(k) = 5

isVarLenDataKey(k) == Len(k) = 5 /\ k[5] = 1

IndexKeyOf(k) == <<k[1], k[2], k[3], k[4], 2>>

KeysOfColumn(t, c, f) ==
    IF is_varlen_indeed(c)
    THEN {t \o <<c, f, 1>>, t \o <<c, f, 2>>}
    ELSE {t \o <<c, f>>}

AllChunkKeys == UNION {KeysOfColumn(t, c, f) : t \in Tables, c \in Columns, f \in Frags}

TableChunkKeys(t) == {k \in AllChunkKeys : TableKeyOf(k) = t}

\* The key a chunk's metadata is filed under: the chunk key itself, the data
\* key for both buffers of a variable-length column.
MetaKeyOf(k) == IF isVarLenKey(k) THEN <<k[1], k[2], k[3], k[4], 1>> ELSE k

AllMetaKeys == {MetaKeyOf(k) : k \in AllChunkKeys}

\* Lexicographic order of chunk keys (std::vector<int> comparison).
RECURSIVE KeyLessFrom(_, _, _)
KeyLessFrom(a, b, i) ==
    IF i > Len(a) THEN i <= Len(b)
    ELSE IF i > Len(b) THEN FALSE
    ELSE IF a[i] # b[i] THEN a[i] < b[i]
    ELSE KeyLessFrom(a, b, i + 1)

KeyLess(a, b) == KeyLessFrom(a, b, 1)

RECURSIVE SortKeys(_)
SortKeys(S) ==
    IF S = {} THEN <<>>
    ELSE LET m == CHOOSE x \in S : \A y \in S \ {x} : KeyLess(x, y)
         IN <<m>> \o SortKeys(S \ {m})

\* Fragment-major order: by fragment first, then lexicographically.
RECURSIVE SortKeysByFragment(_)
SortKeysByFragment(S) ==
    IF S = {} THEN <<>>
    ELSE LET m == CHOOSE x \in S : \A y \in S \ {x} :
                      \/ FragmentOf(x) < FragmentOf(y)
                      \/ FragmentOf(x) = FragmentOf(y) /\ KeyLess(x, y)
         IN <<m>> \o SortKeysByFragment(S \ {m})

\* The two enumeration orders of all chunk keys.
KeyOrder == SortKeys(AllChunkKeys)

FragmentOrder == SortKeysByFragment(AllChunkKeys)

\* ------------------------------------------------------------------ state
VARIABLES
    is_cache_enabled_,        \* foreign_storage_cache_ != nullptr
    append_mode,              \* catalog: the table's refresh_update_type is APPEND
    source,                   \* the external file(s) behind each foreign table
    data_wrapper_map_,        \* table key -> data wrapper (or none)
    temp_chunk_buffer_map_,   \* staging: chunk key -> buffer contents (or none)
    foreign_storage_cache_,   \* the persistent chunk + metadata cache
    since_refresh,            \* history: source versions seen since the table's last refresh
    last_scan,                \* history: fragment count reported by the latest metadata scan
    last_cached_scan,         \* history: fragment count of the latest scan handed to the cache
    last,                     \* what the call that has just returned did; NoCall once
                              \* the caller has taken the result
    in_flight,                \* calls running on several threads: where each one is,
                              \* what it holds, and the cache's buffer objects
    now,                      \* the wall clock, in seconds
    foreign_tables,           \* catalog: each table's refresh options and refresh times
    scheduler,                \* ForeignTableRefreshScheduler: running flag, loop position
    refresh_timer,            \* the re-population loop of one refresh and its clock
    data_wrapper_mutex_,      \* readers-writer lock of data_wrapper_map_
    temp_chunk_buffer_map_mutex_,  \* mutex of temp_chunk_buffer_map_
    threads,                  \* lock-level view of the calls in progress, one per thread
    connection,               \* TcpConnection: its asynchronous operation, the queue it writes
    history                   \* history: the fetches made of the fanout sets so far

vars == <<is_cache_enabled_, append_mode, source, data_wrapper_map_,
          temp_chunk_buffer_map_, foreign_storage_cache_,
          since_refresh, last_scan, last_cached_scan, last, in_flight,
          now, foreign_tables, scheduler, refresh_timer,
          data_wrapper_mutex_, temp_chunk_buffer_map_mutex_, threads,
          connection, history>>

\* The catalog's refresh times and the scheduler.
sched_vars == <<now, foreign_tables, scheduler>>

\* The manager's locks and the threads taking them.
lock_vars == <<data_wrapper_mutex_, temp_chunk_buffer_map_mutex_, threads>>

\* Everything outside one call after another on the manager.
aux == <<sched_vars, refresh_timer, lock_vars, connection, history>>

\* ------------------------------------------------------ data wrapper contract
\* Bytes a wrapper writes into the buffer of chunk key k from a source.
BytesOfVersion(ver, k) == [buf |-> "bytes", ver |-> ver, key |-> k]

Bytes(src, k) == BytesOfVersion(src.ver, k)

\* Metadata a wrapper reports for a chunk from a source.
Metadata(src, k) == [buf |-> "metadata", ver |-> src.ver]

NewWrapper == [exists |-> TRUE, scanned |-> 0, restored |-> FALSE]

\* populate-metadata: scans the whole source; in append mode a source that is
\* smaller than what the wrapper read before is rejected.
populateChunkMetadataFails(w, src, append, fault) ==
    fault \/ (append /\ w.scanned > src.frags)

populateChunkMetadata(w, src) == [w EXCEPT !.scanned = src.frags]

\* The chunk metadata vector of a scan: metadata key -> metadata.
ScanResult(t, src) ==
    [k \in {m \in AllMetaKeys : TableKeyOf(m) = t /\ FragmentOf(m) < src.frags}
        |-> Metadata(src, k)]

\* populate-buffers: fills every required buffer, or fails.
populateChunkBuffersFails(src, keys, fault) ==
    fault \/ (\E k \in keys : FragmentOf(k) >= src.frags)

populateChunkBuffers(src, keys) == [k \in keys |-> Bytes(src, k)]

\* A buffer a failing populate-buffers call has written a part of.
Partial == [buf |-> "partial"]

\* What a failing populate-buffers call leaves in a buffer it was given:
\* nothing, or a part of the chunk.
LeftByFailedPopulate(before, partial) == IF partial THEN Partial ELSE before

serializeDataWrapperInternals(w) == w.scanned

restoreDataWrapperInternals(w, file) == [w EXCEPT !.scanned = file, !.restored = TRUE]

\* ------------------------------------------------------- cache contract
\* The cache is a record: cached_chunks_ and cached_metadata_ are the durable
\* stores, wrapper_file the table's wrapper_metadata.json (0: no file), and
\* loaded says whether this process has read the table's directory.
EmptyCache ==
    [cached_chunks_   |-> [k \in AllChunkKeys |-> NoBuf],
     cached_metadata_ |-> [k \in AllMetaKeys |-> NoBuf],
     wrapper_file     |-> [t \in Tables |-> 0],
     loaded           |-> [t \in Tables |-> FALSE]]

getCachedChunkIfExists(fsc, k) ==
    IF fsc.loaded[TableKeyOf(k)] THEN fsc.cached_chunks_[k] ELSE NoBuf

isMetadataCached(fsc, k) ==
    /\ k \in AllMetaKeys
    /\ fsc.loaded[TableKeyOf(k)]
    /\ fsc.cached_metadata_[k] # NoBuf

TableMetaKeys(t) == {k \in AllMetaKeys : TableKeyOf(k) = t}

hasCachedMetadataForKeyPrefix(fsc, t) ==
    \E k \in TableMetaKeys(t) : isMetadataCached(fsc, k)

getCachedMetadataVecForKeyPrefix(fsc, t) ==
    LET ks == {k \in TableMetaKeys(t) : isMetadataCached(fsc, k)}
    IN [k \in ks |-> fsc.cached_metadata_[k]]

getCachedChunksForKeyPrefix(fsc, t) ==
    {k \in TableChunkKeys(t) : getCachedChunkIfExists(fsc, k) # NoBuf}

cacheMetadataVec(fsc, t, vec) ==
    IF DOMAIN vec = {} THEN fsc
    ELSE [fsc EXCEPT
            !.cached_metadata_ = [k \in AllMetaKeys |->
                                    IF k \in DOMAIN vec THEN vec[k] ELSE @[k]],
            !.loaded[t] = TRUE]

\* Promotes the buffers handed out by getChunkBuffersForCaching and filled by
\* the wrapper: they become the cached chunks of their keys.
cacheTableChunks(fsc, t, bufs) ==
    IF DOMAIN bufs = {} THEN fsc
    ELSE [fsc EXCEPT
            !.cached_chunks_ = [k \in AllChunkKeys |->
                                  IF k \in DOMAIN bufs THEN bufs[k] ELSE @[k]],
            !.loaded[t] = TRUE]

clearForTablePrefix(fsc, t) ==
    [cached_chunks_   |-> [k \in AllChunkKeys |->
                             IF TableKeyOf(k) = t THEN NoBuf ELSE fsc.cached_chunks_[k]],
     cached_metadata_ |-> [k \in AllMetaKeys |->
                             IF TableKeyOf(k) = t THEN NoBuf ELSE fsc.cached_metadata_[k]],
     wrapper_file     |-> [fsc.wrapper_file EXCEPT ![t] = 0],
     loaded           |-> [fsc.loaded EXCEPT ![t] = FALSE]]

\* recoverCacheForTable: succeeds when the table's directory holds metadata.
recoverCacheForTableSucceeds(fsc, t) ==
    \E k \in TableMetaKeys(t) : fsc.cached_metadata_[k] # NoBuf

recoverCacheForTable(fsc, t) ==
    IF recoverCacheForTableSucceeds(fsc, t)
    THEN [fsc EXCEPT !.loaded[t] = TRUE]
    ELSE fsc

writeWrapperFile(fsc, t, w) ==
    [fsc EXCEPT !.wrapper_file[t] = serializeDataWrapperInternals(w)]

\* ------------------------------------------------------------ operation log
\* What the latest operation did: its result, what it delivered and which
\* wrapper and cache calls it made.
Log(op, key) ==
    [op |-> op, key |-> key, status |-> "ok", evict |-> FALSE,
     cached |-> FALSE, from_map |-> FALSE, out |-> NoBuf,
     created |-> FALSE, recovered |-> FALSE,
     n_metadata |-> 0, n_buffers |-> 0, n_restore |-> 0, n_serialize |-> 0,
     n_promote |-> 0, metadata_added |-> 0, chunks_added |-> 0,
     last_frag_id |-> 0, timed_out |-> FALSE, n_returned |-> 0, n_warm |-> 0,
     failed_call |-> "none", warm |-> {}, populated |-> {},
     n_recover |-> 0, calls |-> <<>>, optional_buffers |-> {},
     src_is_dst |-> FALSE, copied |-> FALSE]

NoCall == Log("none", <<>>)

\* -------------------------------------------------------- calls in flight
\* Threads calling fetchBuffer at the same time, and the thread of the
\* refresh scheduler.
NumFetchers == 2

FetchThreads == 1..NumFetchers

\* What a read of freed memory may return besides the old contents.
Garbage == [buf |-> "garbage"]

\* A fetchBuffer call: pc is the statement it is at, cached and dst its
\* locals; dangling says that the buffers it points to were freed, was what
\* the requested buffer held then.
\* A refreshTableInCache call and its locals; calls are the key sets of the
\* populate-buffers calls still to make, cached_before the chunks that were
\* cached when it started.
\* buffers are the cache's buffer objects, one per chunk key (NoBuf: none);
\* wrapper_lock is the thread inside the wrapper's populate (0: nobody).
NothingInFlight ==
    [fetch        |-> [i \in FetchThreads |->
                          [pc |-> "idle", chunk_key |-> <<>>, cached |-> FALSE,
                           dangling |-> FALSE, was |-> NoBuf, dst |-> NoBuf]],
     refresh      |-> [pc |-> "idle", table |-> <<>>, old_chunk_keys |-> <<>>,
                       last_frag_id |-> 0, calls |-> <<>>,
                       chunk_keys_in_fragment |-> {}, chunk_keys_to_be_cached |-> {},
                       cached_before |-> [k \in AllChunkKeys |-> NoBuf]],
     buffers      |-> [k \in AllChunkKeys |-> NoBuf],
     wrapper_lock |-> 0]

\* The clock, the scheduler, the refresh timer and the lock-level threads are
\* at rest in the specifications that make one call after another.
AtRest == [pc |-> "idle"]

NothingElse ==
    /\ now = 0
    /\ foreign_tables = AtRest
    /\ scheduler = AtRest
    /\ refresh_timer = AtRest
    /\ data_wrapper_mutex_ = AtRest
    /\ temp_chunk_buffer_map_mutex_ = AtRest
    /\ threads = AtRest
    /\ connection = AtRest
    /\ history = AtRest

\* ------------------------------------------------------------------- Init
Init ==
    /\ is_cache_enabled_ \in BOOLEAN
    /\ append_mode \in [Tables -> BOOLEAN]
    /\ source \in [Tables -> Sources]
    /\ \A t \in Tables \ QueriedTables : ~append_mode[t] /\ source[t] = IdleSource
    /\ data_wrapper_map_ = [t \in Tables |-> NoWrapper]
    /\ temp_chunk_buffer_map_ = [k \in AllChunkKeys |-> NoBuf]
    /\ foreign_storage_cache_ = EmptyCache
    /\ since_refresh = [t \in Tables |-> {source[t].ver}]
    /\ last_scan = [t \in Tables |-> 0]
    /\ last_cached_scan = [t \in Tables |-> 0]
    /\ last = NoCall
    /\ in_flight = NothingInFlight
    /\ NothingElse

\* ------------------------------------------------- wrapper map operations
\* Faulty variant: constructs a wrapper at every call.
createDataWrapperAlways(wrappers, t) == TRUE

\* createDataWrapperIfNotExists: true when the call constructed the wrapper.
createDataWrapperIfNotExists(wrappers, t) == wrappers[t] = NoWrapper

WrappersAfterCreate(wrappers, t) ==
    IF createDataWrapperIfNotExists(wrappers, t)
    THEN [wrappers EXCEPT ![t] = NewWrapper]
    ELSE wrappers

\* recoverDataWrapperFromDisk: result, and the cache and the wrapper after it.
RecoverHasMetadata(fsc, t) ==
    \/ hasCachedMetadataForKeyPrefix(fsc, t)
    \/ recoverCacheForTableSucceeds(fsc, t)

\* Faulty variant: restores whenever metadata is available, file or not.
recoverWithoutFile(enabled, fsc, t) ==
    IF ~enabled THEN FALSE
    ELSE RecoverHasMetadata(fsc, t)

recoverDataWrapperFromDisk(enabled, fsc, t) ==
    IF ~enabled THEN FALSE
    ELSE fsc.wrapper_file[t] # 0 /\ RecoverHasMetadata(fsc, t)

CacheAfterRecoverWrapper(enabled, fsc, t) ==
    IF ~enabled THEN fsc
    ELSE IF hasCachedMetadataForKeyPrefix(fsc, t) THEN fsc
    ELSE recoverCacheForTable(fsc, t)

WrapperAfterRecover(enabled, fsc, t, w) ==
    IF recoverDataWrapperFromDisk(enabled, fsc, t)
    THEN restoreDataWrapperInternals(w, fsc.wrapper_file[t])
    ELSE w

\* clearTempChunkBufferMapEntriesForTable: range erase between the table key
\* and {db, table, INT_MAX} in the sorted staging map.
INT_MAX == 2147483647

\* Faulty variant: the range ends at the prefix of the next table id.
InNextTableRange(k, t) ==
    /\ ~KeyLess(k, t)
    /\ ~KeyLess(<<t[1], t[2] + 1, INT_MAX>>, k)

InTableRange(k, t) ==
    /\ ~KeyLess(k, t)
    /\ ~KeyLess(<<t[1], t[2], INT_MAX>>, k)

clearTempChunkBufferMapEntriesForTable(temp, t) ==
    [k \in AllChunkKeys |-> IF InTableRange(k, t) THEN NoBuf ELSE temp[k]]

\* Faulty variant: only the requested column is populated.
FanoutRequestedColumn(c) == c..c

\* getChunkBuffersToPopulate: the fanout set of the requested key.
FanoutColumns(c) ==
    LET logical_column_id == getLogicalColumn(c)
    IN logical_column_id..(logical_column_id + get_physical_cols(logical_column_id))

FanoutKeys(chunk_key) ==
    UNION {KeysOfColumn(TableKeyOf(chunk_key), column_id, FragmentOf(chunk_key)) :
             column_id \in FanoutColumns(ColumnOf(chunk_key))}

\* With the cache disabled every sibling of the requested key gets a fresh
\* staging buffer (an existing entry is replaced).
StagingAfterGetBuffers(temp, chunk_key) ==
    [k \in AllChunkKeys |->
        IF k \in FanoutKeys(chunk_key) /\ k # chunk_key THEN Empty ELSE temp[k]]

\* ------------------------------------------------------------ fetchBuffer
\* The buffer is copied into the destination unless the wrapper wrote the
\* destination directly.
CopiesToDestination(enabled, is_buffer_from_map) == enabled \/ is_buffer_from_map

\* Faulty variant: the requested key always gets a buffer of its own.
DestinationNeverRequired(enabled) == FALSE

\* With the cache disabled the destination buffer itself is the required
\* buffer of the requested key: the wrapper writes into it.
DestinationIsRequired(enabled) == ~enabled

\* Faulty variant: writes back to the cache after a hit too.
WritesBackAlways(enabled, cached) == enabled

\* Write back to the cache only when the buffer did not come from the cache.
WritesBackToCache(enabled, cached) == enabled /\ ~cached

\* The locals of the function are bound in the order of its statements, each
\* to the one value it has in the call.
fetchBuffer(chunk_key, fault_metadata, fault_buffers, partial) ==
    LET t == TableKeyOf(chunk_key)
        enabled == is_cache_enabled_
        fsc == foreign_storage_cache_
    IN
    \E cache_buffer \in {IF enabled THEN getCachedChunkIfExists(fsc, chunk_key) ELSE NoBuf} :
    \E is_buffer_from_map \in {~enabled /\ temp_chunk_buffer_map_[chunk_key] # NoBuf} :
    \E found \in {IF is_buffer_from_map THEN temp_chunk_buffer_map_[chunk_key]
                  ELSE cache_buffer} :
    \E miss \in {found = NoBuf} :
    \E cached \in {~miss} :
    \E created \in {miss /\ createDataWrapperIfNotExists(data_wrapper_map_, t)} :
    \E w0 \in {IF miss THEN WrappersAfterCreate(data_wrapper_map_, t)[t]
               ELSE data_wrapper_map_[t]} :
    \E recovered \in {created /\ recoverDataWrapperFromDisk(enabled, fsc, t)} :
    \E fsc1 \in {IF created THEN CacheAfterRecoverWrapper(enabled, fsc, t) ELSE fsc} :
    \E w1 \in {IF created THEN WrapperAfterRecover(enabled, fsc, t, w0) ELSE w0} :
    \E scans \in {created /\ ~recovered} :
    \E scan_fails \in {scans /\ populateChunkMetadataFails(w1, source[t], append_mode[t],
                                                           fault_metadata)} :
    \E w2 \in {IF scans /\ ~scan_fails THEN populateChunkMetadata(w1, source[t]) ELSE w1} :
    \E chunk_keys \in {IF miss THEN FanoutKeys(chunk_key) ELSE {}} :
    \E populate_fails \in {/\ miss
                           /\ ~scan_fails
                           /\ populateChunkBuffersFails(source[t], chunk_keys, fault_buffers)} :
    \E required_buffers \in {populateChunkBuffers(source[t], chunk_keys)} :
    \E staged \in {IF miss /\ ~scan_fails /\ ~enabled
                   THEN StagingAfterGetBuffers(temp_chunk_buffer_map_, chunk_key)
                   ELSE temp_chunk_buffer_map_} :
    \* the wrapper writes into the staged siblings; a failing call may
    \* leave a part of its output in them
    \E temp1 \in {[k \in AllChunkKeys |->
                     IF populate_fails /\ ~enabled /\ k \in chunk_keys /\ k # chunk_key
                     THEN LeftByFailedPopulate(staged[k], partial)
                     ELSE staged[k]]} :
    \E failed \in {scan_fails \/ populate_fails} :
    \E buffer \in {IF miss THEN required_buffers[chunk_key] ELSE found} :
    \E promotes \in {~failed /\ WritesBackToCache(enabled, cached)} :
    /\ UNCHANGED <<aux, in_flight, is_cache_enabled_, append_mode, source, since_refresh,
                   last_cached_scan>>
    /\ data_wrapper_map_' = [data_wrapper_map_ EXCEPT ![t] = w2]
    /\ last_scan' = IF scans /\ ~scan_fails
                    THEN [last_scan EXCEPT ![t] = source[t].frags]
                    ELSE last_scan
    /\ foreign_storage_cache_' =
           IF promotes
           THEN cacheTableChunks(fsc1, t, [k \in chunk_keys |-> required_buffers[k]])
           ELSE fsc1
    /\ temp_chunk_buffer_map_' =
           [k \in AllChunkKeys |->
              IF ~failed /\ is_buffer_from_map /\ k = chunk_key
              THEN NoBuf                       \* the consumed entry is erased
              ELSE IF ~failed /\ miss /\ ~enabled /\ k \in chunk_keys /\ k # chunk_key
              THEN required_buffers[k]         \* the wrapper filled the sibling
              ELSE temp1[k]]
    /\ last' = [Log("fetchBuffer", chunk_key) EXCEPT
           !.status = IF failed THEN "error" ELSE "ok",
           !.failed_call = IF scan_fails THEN "populateChunkMetadata"
                           ELSE IF populate_fails THEN "populateChunkBuffers"
                           ELSE "none",
           !.cached = cached,
           !.from_map = is_buffer_from_map,
           !.created = created,
           !.recovered = recovered,
           !.n_recover = IF created THEN 1 ELSE 0,
           !.n_restore = IF recovered THEN 1 ELSE 0,
           !.n_metadata = IF scans THEN 1 ELSE 0,
           !.n_buffers = IF miss /\ ~scan_fails THEN 1 ELSE 0,
           !.calls = IF miss /\ ~scan_fails THEN <<chunk_keys>> ELSE <<>>,
           !.src_is_dst = ~failed /\ miss /\ DestinationIsRequired(enabled),
           !.copied = ~failed /\ CopiesToDestination(enabled, is_buffer_from_map),
           !.n_promote = IF promotes THEN 1 ELSE 0,
           !.chunks_added = IF promotes THEN Cardinality(chunk_keys) ELSE 0,
           !.out = IF populate_fails /\ DestinationIsRequired(enabled)
                   THEN LeftByFailedPopulate(NoBuf, partial)
                   ELSE IF failed THEN NoBuf           \* the destination is as it was
                   ELSE IF miss /\ ~enabled
                   THEN required_buffers[chunk_key]   \* written by the wrapper
                   ELSE IF CopiesToDestination(enabled, is_buffer_from_map)
                   THEN buffer
                   ELSE NoBuf]

\* --------------------------------------- getChunkMetadataVecForKeyPrefix
FragmentsOf(keys) == {FragmentOf(k) : k \in keys}

\* Faulty variant: the recovery from the cache directory is never tried.
RecoversNever(enabled, fsc, wrappers, t) == FALSE

\* No wrapper yet: the metadata is recovered from the table's cache directory.
RecoversMetadata(enabled, fsc, wrappers, t) ==
    /\ enabled
    /\ wrappers[t] = NoWrapper
    /\ recoverCacheForTableSucceeds(fsc, t)

getChunkMetadataVecForKeyPrefix(t, fault_metadata) ==
    LET enabled == is_cache_enabled_
        fsc == foreign_storage_cache_
        from_cache == enabled /\ hasCachedMetadataForKeyPrefix(fsc, t)
        from_disk == ~from_cache /\ RecoversMetadata(enabled, fsc, data_wrapper_map_, t)
        created == createDataWrapperIfNotExists(data_wrapper_map_, t)
        w0 == WrappersAfterCreate(data_wrapper_map_, t)[t]
        scan_fails == populateChunkMetadataFails(w0, source[t], append_mode[t],
                                                 fault_metadata)
        w1 == populateChunkMetadata(w0, source[t])
        chunk_metadata == ScanResult(t, source[t])
        fsc1 == IF enabled
                THEN cacheMetadataVec(writeWrapperFile(fsc, t, w1), t, chunk_metadata)
                ELSE fsc
        log == Log("getChunkMetadataVecForKeyPrefix", t)
    IN
    /\ UNCHANGED <<aux, in_flight, is_cache_enabled_, append_mode, source, temp_chunk_buffer_map_,
                   since_refresh>>
    /\ IF from_cache
       THEN /\ last' = [log EXCEPT !.cached = TRUE,
                   !.n_returned = Cardinality(DOMAIN getCachedMetadataVecForKeyPrefix(fsc, t))]
            /\ UNCHANGED <<data_wrapper_map_, foreign_storage_cache_, last_scan,
                           last_cached_scan>>
       ELSE IF from_disk
       THEN /\ foreign_storage_cache_' = recoverCacheForTable(fsc, t)
            /\ last' = [log EXCEPT !.recovered = TRUE,
                   !.n_returned = Cardinality(DOMAIN getCachedMetadataVecForKeyPrefix(
                                                         recoverCacheForTable(fsc, t), t))]
            /\ UNCHANGED <<data_wrapper_map_, last_scan, last_cached_scan>>
       ELSE IF scan_fails
       THEN /\ data_wrapper_map_' = [data_wrapper_map_ EXCEPT ![t] = w0]
            /\ last' = [log EXCEPT !.status = "error", !.created = created,
                                   !.failed_call = "populateChunkMetadata",
                                   !.n_metadata = 1]
            /\ UNCHANGED <<foreign_storage_cache_, last_scan, last_cached_scan>>
       ELSE /\ data_wrapper_map_' = [data_wrapper_map_ EXCEPT ![t] = w1]
            /\ foreign_storage_cache_' = fsc1
            /\ last_scan' = [last_scan EXCEPT ![t] = source[t].frags]
            /\ last_cached_scan' = IF enabled
                                   THEN [last_cached_scan EXCEPT ![t] = source[t].frags]
                                   ELSE last_cached_scan
            /\ last' = [log EXCEPT !.created = created, !.n_metadata = 1,
                                   !.n_returned = Cardinality(DOMAIN chunk_metadata),
                                   !.n_serialize = IF enabled THEN 1 ELSE 0,
                                   !.metadata_added = IF enabled
                                        THEN Cardinality(DOMAIN chunk_metadata) ELSE 0]

\* ------------------------------------------------- removeTableRelatedDS
removeTableRelatedDS(t) ==
    /\ data_wrapper_map_' = [data_wrapper_map_ EXCEPT ![t] = NoWrapper]
    /\ foreign_storage_cache_' =
           IF is_cache_enabled_ THEN clearForTablePrefix(foreign_storage_cache_, t)
           ELSE foreign_storage_cache_
    /\ temp_chunk_buffer_map_' =
           clearTempChunkBufferMapEntriesForTable(temp_chunk_buffer_map_, t)
    /\ since_refresh' = [since_refresh EXCEPT ![t] = {source[t].ver}]
    /\ last_scan' = [last_scan EXCEPT ![t] = 0]
    /\ last_cached_scan' = [last_cached_scan EXCEPT ![t] = 0]
    /\ last' = Log("removeTableRelatedDS", t)
    /\ UNCHANGED <<aux, in_flight, is_cache_enabled_, append_mode, source>>

\* ------------------------------------------------------------ environment
\* An external process rewrites the table's source file(s): ver counts the
\* rewrites of their contents, up to NumVersions - 1; files that are only
\* added or removed leave it as it is.
ChangeSource(t, src) ==
    /\ src # source[t]
    /\ src.ver >= source[t].ver
    /\ source' = [source EXCEPT ![t] = src]
    /\ since_refresh' = [since_refresh EXCEPT ![t] = @ \cup {src.ver}]
    /\ UNCHANGED <<aux, in_flight, last, is_cache_enabled_, append_mode, data_wrapper_map_,
                   temp_chunk_buffer_map_, foreign_storage_cache_,
                   last_scan, last_cached_scan>>

\* The server restarts (resetPersistentStorage): a new manager and a new cache
\* object over the same cache directory.
Restart ==
    /\ data_wrapper_map_' = [t \in Tables |-> NoWrapper]
    /\ temp_chunk_buffer_map_' = [k \in AllChunkKeys |-> NoBuf]
    /\ foreign_storage_cache_' =
           [foreign_storage_cache_ EXCEPT !.loaded = [t \in Tables |-> FALSE]]
    /\ UNCHANGED <<aux, in_flight, last, is_cache_enabled_, append_mode, source, since_refresh,
                   last_scan, last_cached_scan>>

\* ----------------------------------------------------------- refreshTable
RefreshTimeExceeded(total_time) == total_time >= MAX_REFRESH_TIME_IN_SECONDS

\* Faulty variant: the last cached fragment itself is left out.
RecachesAboveLast(append, fragment, last_frag_id) ==
    ~append \/ fragment > last_frag_id

\* Faulty variant: the new metadata is cached in append mode only.
RecachesInAppendOnly(append, fragment, last_frag_id) ==
    append /\ fragment >= last_frag_id

\* Append mode re-caches the metadata of the last cached fragment and above.
RecachesMetadata(append, fragment, last_frag_id) ==
    ~append \/ fragment >= last_frag_id

\* Faulty variant: the fragment before the last cached one is re-populated too.
SkipsBelowPrevious(append, fragment, last_frag_id) ==
    append /\ fragment < last_frag_id - 1

\* Append mode leaves the warm chunks below the last cached fragment alone.
SkipsWarmChunk(append, fragment, last_frag_id) ==
    append /\ fragment < last_frag_id

RECURSIVE MaxOf(_)
MaxOf(S) == IF S = {} THEN 0
            ELSE LET x == CHOOSE y \in S : TRUE
                     m == MaxOf(S \ {x})
                 IN IF x > m THEN x ELSE m

\* Faulty variant: the largest cached fragment id is never computed.
LastFragIdUnset(fsc, t) == 0

LastFragId(fsc, t) ==
    IF hasCachedMetadataForKeyPrefix(fsc, t)
    THEN MaxOf(FragmentsOf(DOMAIN getCachedMetadataVecForKeyPrefix(fsc, t)))
    ELSE 0

\* State of the re-population loop.
LoopStart(old_chunk_keys) ==
    [fragment_id |-> FragmentOf(old_chunk_keys[1]),
     chunk_keys_in_fragment |-> {},
     chunk_keys_to_be_cached |-> {},
     bufs |-> <<>>,
     total_time |-> 0,
     elapsed |-> 0,
     calls |-> <<>>,
     status |-> "run"]

\* One populate-buffers call for the keys gathered for the current fragment.
Flush(st, src, fault_at, slow) ==
    LET keys == st.chunk_keys_in_fragment
        fails == populateChunkBuffersFails(src, keys, fault_at = Len(st.calls) + 1)
        filled == populateChunkBuffers(src, keys)
    IN IF fails
       THEN [st EXCEPT !.calls = Append(@, keys), !.status = "error"]
       ELSE [st EXCEPT
               !.calls = Append(@, keys),
               !.bufs = [k \in (DOMAIN st.bufs) \cup keys |->
                           IF k \in keys THEN filled[k] ELSE st.bufs[k]],
               \* seconds the call takes: a slow fragment uses up the budget
               !.elapsed = @ + (IF \E k \in keys : FragmentOf(k) \in slow
                                THEN MAX_REFRESH_TIME_IN_SECONDS ELSE 0),
               !.chunk_keys_in_fragment = {}]

\* Faulty variant: moves on to the new fragment without flushing the batch.
BoundaryKeepsBatch(st, chunk_key, src, fault_at, slow) ==
    [st EXCEPT !.fragment_id = FragmentOf(chunk_key)]

\* The chunk key starts a new fragment: flush, check the budget, move on.
Boundary(st, chunk_key, src, fault_at, slow) ==
    LET st1 == IF st.chunk_keys_in_fragment # {}
               THEN Flush(st, src, fault_at, slow) ELSE st
        total_time == st1.total_time + st1.elapsed
    IN IF st1.status = "error" THEN st1
       ELSE IF RefreshTimeExceeded(total_time)
       THEN [st1 EXCEPT !.total_time = total_time, !.status = "timeout"]
       ELSE [st1 EXCEPT !.total_time = total_time, !.elapsed = 0,
                        !.fragment_id = FragmentOf(chunk_key)]

AddKey(st, chunk_key) ==
    LET keys == IF isVarLenKey(chunk_key)
                THEN {IndexKeyOf(chunk_key), chunk_key} ELSE {chunk_key}
    IN [st EXCEPT !.chunk_keys_in_fragment = @ \cup keys,
                  !.chunk_keys_to_be_cached = @ \cup keys]

RECURSIVE Repopulate(_, _, _, _, _, _, _, _, _)
Repopulate(old_chunk_keys, i, st, fsc, append, last_frag_id, src, fault_at, slow) ==
    IF i > Len(old_chunk_keys) \/ st.status # "run" THEN st
    ELSE LET chunk_key == old_chunk_keys[i]
             next(s) == Repopulate(old_chunk_keys, i + 1, s, fsc, append, last_frag_id,
                                   src, fault_at, slow)
         IN IF SkipsWarmChunk(append, FragmentOf(chunk_key), last_frag_id)
            THEN next(st)
            ELSE IF ~isMetadataCached(fsc, chunk_key) THEN next(st)
            ELSE LET st1 == IF FragmentOf(chunk_key) # st.fragment_id
                            THEN Boundary(st, chunk_key, src, fault_at, slow)
                            ELSE st
                 IN IF st1.status # "run" THEN st1
                    ELSE next(AddKey(st1, chunk_key))

\* The loop, the last flush and the keys handed to cacheTableChunks.
RepopulateAll(old_chunk_keys, fsc, append, last_frag_id, src, fault_at, slow) ==
    LET st == Repopulate(old_chunk_keys, 1, LoopStart(old_chunk_keys), fsc, append,
                         last_frag_id, src, fault_at, slow)
    IN IF st.status = "run" /\ st.chunk_keys_in_fragment # {}
       THEN Flush(st, src, fault_at, slow)
       ELSE st

EnumerateChunks(keys, order) ==
    LET Cached(k) == k \in keys
    IN SelectSeq(IF order = "key" THEN KeyOrder ELSE FragmentOrder, Cached)

Orders == {"key", "fragment"}

\* Faulty variant: every error of the refresh is wrapped.
RefreshErrorAlwaysWrapped(in_try) == "post_eviction_error"

\* Faulty variant: the error of the re-population is not wrapped.
RefreshErrorNeverWrapped(in_try) == "error"

\* An exception thrown inside the try block is wrapped as
\* PostEvictionRefreshException; one thrown before it is not.
RefreshError(in_try) == IF in_try THEN "post_eviction_error" ELSE "error"

\* Faulty variant: ALL mode clears the table before the scan.
CacheClearedAtScan(fsc, t, append) ==
    IF append THEN fsc ELSE clearForTablePrefix(fsc, t)

\* The cache when populateChunkMetadata is called: nothing is cleared yet.
CacheAtScan(fsc, t, append) == fsc

\* Faulty variant: the table is not cleared.
CacheNotCleared(fsc, t, append) == fsc

\* ALL mode clears the table before the new metadata is cached.
CacheBeforeRecache(fsc, t, append) ==
    IF append THEN fsc ELSE clearForTablePrefix(fsc, t)

\* Faulty variant: the eviction leaves the cache as it is.
evictNothing(enabled, fsc, t) == fsc

\* Faulty variant: the eviction drops the metadata and leaves the chunks.
evictMetadataOnly(enabled, fsc, t) ==
    IF ~enabled THEN fsc
    ELSE [fsc EXCEPT !.cached_metadata_ =
            [k \in AllMetaKeys |-> IF TableKeyOf(k) = t THEN NoBuf ELSE @[k]]]

evictTableFromCache(enabled, fsc, t) ==
    IF ~enabled THEN fsc ELSE clearForTablePrefix(fsc, t)

\* Faulty variant: a refresh stopped by the budget promotes nothing.
PromotesOnlyWhenComplete(status) == status = "run"

\* cacheTableChunks runs after the loop, whether it ran to its end or stopped
\* at the budget; an exception skips it.
PromotesAfterLoop(status) == status # "error"

\* The keys handed to populate-buffers calls.
RECURSIVE KeysOfCalls(_)
KeysOfCalls(calls) ==
    IF calls = <<>> THEN {} ELSE Head(calls) \cup KeysOfCalls(Tail(calls))

refreshTableInCache(t, order, fault_metadata, fault_at, slow) ==
    LET enabled == is_cache_enabled_
        fsc == foreign_storage_cache_
        append == append_mode[t]
        src == source[t]
    IN
    IF ~enabled
    THEN /\ last' = Log("refreshTable", t)
         /\ since_refresh' = [since_refresh EXCEPT ![t] = {src.ver}]
         /\ UNCHANGED <<data_wrapper_map_, foreign_storage_cache_, last_scan,
                        last_cached_scan>>
    ELSE
    \E created \in {createDataWrapperIfNotExists(data_wrapper_map_, t)} :
    \E w0 \in {WrappersAfterCreate(data_wrapper_map_, t)[t]} :
    \E recovers \in {created /\ append} :
    \E recovered \in {recovers /\ recoverDataWrapperFromDisk(enabled, fsc, t)} :
    \E fsc1 \in {IF recovers THEN CacheAfterRecoverWrapper(enabled, fsc, t) ELSE fsc} :
    \E w1 \in {IF recovers THEN WrapperAfterRecover(enabled, fsc, t, w0) ELSE w0} :
    \E old_chunk_keys \in {EnumerateChunks(getCachedChunksForKeyPrefix(fsc1, t), order)} :
    \E scan_fails \in {populateChunkMetadataFails(w1, src, append, fault_metadata)} :
    \E w2 \in {populateChunkMetadata(w1, src)} :
    \E metadata_vec \in {ScanResult(t, src)} :
    \E fsc2 \in {writeWrapperFile(fsc1, t, w2)} :
    \E last_frag_id \in {IF append THEN LastFragId(fsc2, t) ELSE 0} :
    \E fsc3 \in {CacheBeforeRecache(fsc2, t, append)} :
    \E new_metadata_vec \in
           {[k \in {m \in DOMAIN metadata_vec :
                       RecachesMetadata(append, FragmentOf(m), last_frag_id)}
                 |-> metadata_vec[k]]} :
    \E fsc4 \in {cacheMetadataVec(fsc3, t, new_metadata_vec)} :
    \E st \in {IF old_chunk_keys = <<>> THEN [status |-> "run", calls |-> <<>>,
                                              chunk_keys_to_be_cached |-> {},
                                              bufs |-> <<>>]
               ELSE RepopulateAll(old_chunk_keys, fsc4, append, last_frag_id, src,
                                  fault_at, slow)} :
    \E fsc5 \in {IF PromotesAfterLoop(st.status)
                 THEN LET promoted == [k \in st.chunk_keys_to_be_cached |-> st.bufs[k]]
                      IN cacheTableChunks(fsc4, t, promoted)
                 ELSE fsc4} :
    \E log \in {[Log("refreshTable", t) EXCEPT
                   !.created = created, !.recovered = recovered,
                   !.n_recover = IF recovers THEN 1 ELSE 0,
                   !.n_restore = IF recovered THEN 1 ELSE 0,
                   !.n_metadata = 1]} :
    IF scan_fails
    THEN \* the wrapper's own error reaches the caller; nothing was evicted
         /\ data_wrapper_map_' = [data_wrapper_map_ EXCEPT ![t] = w1]
         /\ foreign_storage_cache_' = CacheAtScan(fsc1, t, append)
         /\ last' = [log EXCEPT !.status = RefreshError(FALSE),
                                !.failed_call = "populateChunkMetadata"]
         /\ UNCHANGED <<since_refresh, last_scan, last_cached_scan>>
    ELSE /\ data_wrapper_map_' = [data_wrapper_map_ EXCEPT ![t] = w2]
         /\ foreign_storage_cache_' = fsc5
         /\ last_scan' = [last_scan EXCEPT ![t] = src.frags]
         /\ last_cached_scan' = [last_cached_scan EXCEPT ![t] = src.frags]
         /\ since_refresh' = IF st.status = "error" THEN since_refresh
                             ELSE [since_refresh EXCEPT ![t] = {src.ver}]
         /\ last' = [log EXCEPT
                !.status = IF st.status = "error" THEN RefreshError(TRUE) ELSE "ok",
                !.failed_call = IF st.status = "error" THEN "populateChunkBuffers"
                                ELSE "none",
                !.timed_out = (st.status = "timeout"),
                !.n_serialize = 1,
                !.n_buffers = Len(st.calls),
                !.n_promote = IF old_chunk_keys # <<>> /\ PromotesAfterLoop(st.status)
                              THEN 1 ELSE 0,
                !.metadata_added = Cardinality(DOMAIN new_metadata_vec),
                !.chunks_added = IF PromotesAfterLoop(st.status)
                                 THEN Cardinality(st.chunk_keys_to_be_cached)
                                 ELSE 0,
                !.last_frag_id = last_frag_id,
                !.n_warm = Len(old_chunk_keys),
                !.warm = {old_chunk_keys[i] : i \in 1..Len(old_chunk_keys)},
                !.populated = KeysOfCalls(st.calls),
                !.calls = st.calls]

refreshTable(t, evict_cached_entries, order, fault_metadata, fault_at, slow) ==
    /\ temp_chunk_buffer_map_' =
           clearTempChunkBufferMapEntriesForTable(temp_chunk_buffer_map_, t)
    /\ UNCHANGED <<refresh_timer, lock_vars, connection, history, in_flight, is_cache_enabled_, append_mode,
                   source>>
    /\ IF evict_cached_entries
       THEN /\ foreign_storage_cache_' =
                   evictTableFromCache(is_cache_enabled_, foreign_storage_cache_, t)
            /\ since_refresh' = [since_refresh EXCEPT ![t] = {source[t].ver}]
            /\ last' = [Log("refreshTable", t) EXCEPT !.evict = TRUE]
            /\ UNCHANGED <<data_wrapper_map_, last_scan, last_cached_scan>>
       ELSE refreshTableInCache(t, order, fault_metadata, fault_at, slow)

\* ------------------------------------------------------------------- Next
\* The executor fetches only chunks of fragments listed in the metadata it
\* was given: the cached metadata, or the wrapper's latest scan when there is
\* no cache.
CallerKnowsChunk(chunk_key) ==
    IF is_cache_enabled_
    THEN isMetadataCached(foreign_storage_cache_, MetaKeyOf(chunk_key))
    ELSE FragmentOf(chunk_key) < data_wrapper_map_[TableKeyOf(chunk_key)].scanned

QueriedChunkKeys == {k \in AllChunkKeys : TableKeyOf(k) \in QueriedTables}

\* The caller takes the result of the call that has returned.
Return ==
    /\ last # NoCall
    /\ last' = NoCall
    /\ UNCHANGED <<aux, in_flight, is_cache_enabled_, append_mode, source, data_wrapper_map_,
                   temp_chunk_buffer_map_, foreign_storage_cache_,
                   since_refresh, last_scan, last_cached_scan>>

\* Calls are made one after another.
Spec ==
    Init /\
    [][\/ /\ last = NoCall
          /\ \E chunk_key \in QueriedChunkKeys,
                fault \in {<<FALSE, FALSE, FALSE>>, <<TRUE, FALSE, FALSE>>,
                           <<FALSE, TRUE, FALSE>>, <<FALSE, TRUE, TRUE>>} :
                /\ CallerKnowsChunk(chunk_key)
                /\ fetchBuffer(chunk_key, fault[1], fault[2], fault[3])
       \/ /\ last = NoCall
          /\ \E t \in QueriedTables, fault_metadata \in BOOLEAN :
                getChunkMetadataVecForKeyPrefix(t, fault_metadata)
       \/ /\ last = NoCall
          /\ UNCHANGED sched_vars
          /\ \E t \in QueriedTables : refreshTable(t, TRUE, "key", FALSE, 0, {})
       \/ /\ last = NoCall
          /\ UNCHANGED sched_vars
          /\ \E t \in QueriedTables : refreshTable(t, FALSE, "key", TRUE, 0, {})
       \/ /\ last = NoCall
          /\ UNCHANGED sched_vars
          \* Inputs of a non-evicting refresh: a failing populate-buffers call
          \* or slow fragments.
          /\ \E t \in QueriedTables, order \in Orders,
                fault \in {<<fault_at, {}>> : fault_at \in 0..MaxFaultCall} \cup
                          {<<0, slow>> : slow \in SUBSET Frags} :
                refreshTable(t, FALSE, order, FALSE, fault[1], fault[2])
       \/ /\ last = NoCall
          /\ \E t \in QueriedTables : removeTableRelatedDS(t)
       \/ /\ last = NoCall
          /\ \E t \in QueriedTables, src \in Sources : ChangeSource(t, src)
       \/ /\ last = NoCall
          /\ Restart
       \/ Return]_vars

\* ------------------------------------------------- several tables at once
\* Every table of the catalog is queried, refreshed and dropped; the tables
\* are in ALL mode, the sources stay as they are, no wrapper call fails and
\* the server is not restarted.
InitTables ==
    /\ is_cache_enabled_ \in BOOLEAN
    /\ append_mode = [t \in Tables |-> FALSE]
    /\ source \in [Tables -> {src \in Sources : src.ver = 0}]
    /\ data_wrapper_map_ = [t \in Tables |-> NoWrapper]
    /\ temp_chunk_buffer_map_ = [k \in AllChunkKeys |-> NoBuf]
    /\ foreign_storage_cache_ = EmptyCache
    /\ since_refresh = [t \in Tables |-> {source[t].ver}]
    /\ last_scan = [t \in Tables |-> 0]
    /\ last_cached_scan = [t \in Tables |-> 0]
    /\ last = NoCall
    /\ in_flight = NothingInFlight
    /\ NothingElse

SpecTables ==
    InitTables /\
    [][\/ /\ last = NoCall
          /\ \E chunk_key \in AllChunkKeys :
                /\ CallerKnowsChunk(chunk_key)
                /\ fetchBuffer(chunk_key, FALSE, FALSE, FALSE)
       \/ /\ last = NoCall
          /\ \E t \in Tables : getChunkMetadataVecForKeyPrefix(t, FALSE)
       \/ /\ last = NoCall
          /\ UNCHANGED sched_vars
          /\ \E t \in Tables, evict_cached_entries \in BOOLEAN :
                refreshTable(t, evict_cached_entries, "key", FALSE, 0, {})
       \/ /\ last = NoCall
          /\ \E t \in Tables : removeTableRelatedDS(t)
       \/ Return]_vars

\* ---------------------------------------------- calls running concurrently
\* fetchBuffer calls on several threads and one non-evicting refresh, each
\* taking one statement at a time.  The cache is enabled, no wrapper call
\* fails and the source stays as it is.

\* The cache keeps one buffer object per chunk key.  getChunkBuffersForCaching
\* hands these objects out empty; a handed-out buffer is hidden from
\* getCachedChunkIfExists until cacheTableChunks promotes its key.
getChunkBuffersForCaching(buffers, keys) ==
    [k \in AllChunkKeys |-> IF k \in keys THEN Empty ELSE buffers[k]]

HiddenUntilPromoted(fsc, keys) ==
    [fsc EXCEPT !.cached_chunks_ =
        [k \in AllChunkKeys |-> IF k \in keys THEN NoBuf ELSE @[k]]]

\* The wrapper writes into the buffers it was given: first a part, then all.
BeingWritten(buffers, keys) ==
    [k \in AllChunkKeys |-> IF k \in keys THEN Partial ELSE buffers[k]]

Written(buffers, src, keys) ==
    [k \in AllChunkKeys |-> IF k \in keys THEN Bytes(src, k) ELSE buffers[k]]

\* A cached chunk is its buffer object: what is written into the object of a
\* promoted key is what readers of the cache see.
SeenThroughCache(fsc, buffers) ==
    [fsc EXCEPT !.cached_chunks_ =
        [k \in AllChunkKeys |-> IF @[k] # NoBuf THEN buffers[k] ELSE NoBuf]]

\* cacheTableChunks(keys): the buffer objects of the keys become cached chunks.
PromotedBuffers(buffers, keys) ==
    [k \in {x \in keys : buffers[x] # NoBuf} |-> buffers[k]]

\* The state a running server is in when the calls start: the table was
\* scanned at version 0, some of its fragments are warm in the cache, and the
\* source has changed since.
WarmCache(t, frags, warm) ==
    LET scanned == [frags |-> frags, ver |-> 0]
        fsc1 == cacheMetadataVec(EmptyCache, t, ScanResult(t, scanned))
        warm_keys == {k \in TableChunkKeys(t) : FragmentOf(k) \in warm}
        fsc2 == cacheTableChunks(fsc1, t, [k \in warm_keys |-> BytesOfVersion(0, k)])
    IN [fsc2 EXCEPT !.wrapper_file[t] = frags]

InitConcurrent ==
    /\ is_cache_enabled_ = TRUE
    /\ append_mode \in [Tables -> BOOLEAN]
    /\ source \in [Tables -> Sources]
    /\ \A t \in Tables \ QueriedTables : ~append_mode[t] /\ source[t] = IdleSource
    /\ \A t \in QueriedTables : source[t].ver = NumVersions - 1
    /\ \E warm \in SUBSET Frags :
          /\ \A t \in QueriedTables : \A f \in warm : f < source[t].frags
          /\ foreign_storage_cache_ =
                 WarmCache(<<1, 1>>, source[<<1, 1>>].frags, warm)
    /\ data_wrapper_map_ =
           [t \in Tables |->
              IF t \in QueriedTables
              THEN [exists |-> TRUE, scanned |-> source[t].frags, restored |-> FALSE]
              ELSE NoWrapper]
    /\ temp_chunk_buffer_map_ = [k \in AllChunkKeys |-> NoBuf]
    /\ since_refresh = [t \in Tables |-> {0, source[t].ver}]
    /\ last_scan = [t \in Tables |-> IF t \in QueriedTables THEN source[t].frags ELSE 0]
    /\ last_cached_scan = last_scan
    /\ last = NoCall
    /\ in_flight = [NothingInFlight EXCEPT
                      !.buffers = foreign_storage_cache_.cached_chunks_]
    /\ NothingElse

\* -- fetchBuffer, statement by statement
\* Lines 53-62: the cache probe.
FetchProbe(i, chunk_key) ==
    LET th == in_flight.fetch[i]
        buffer == getCachedChunkIfExists(foreign_storage_cache_, chunk_key)
        cached == buffer # NoBuf
    IN /\ th.pc = "idle"
       /\ CallerKnowsChunk(chunk_key)
       /\ in_flight' = [in_flight EXCEPT !.fetch[i] =
              [th EXCEPT !.pc = IF cached THEN "copy" ELSE "wrapper",
                         !.chunk_key = chunk_key,
                         !.cached = cached]]
       /\ UNCHANGED <<aux, is_cache_enabled_, append_mode, source, data_wrapper_map_,
                      temp_chunk_buffer_map_, foreign_storage_cache_,
                      since_refresh, last_scan, last_cached_scan, last>>

\* Lines 76-86: the wrapper is created, recovered or primed when it is missing.
FetchWrapper(i) ==
    LET th == in_flight.fetch[i]
        t == TableKeyOf(th.chunk_key)
        fsc == foreign_storage_cache_
        created == createDataWrapperIfNotExists(data_wrapper_map_, t)
        w0 == WrappersAfterCreate(data_wrapper_map_, t)[t]
        recovered == created /\ recoverDataWrapperFromDisk(TRUE, fsc, t)
        fsc1 == IF created THEN CacheAfterRecoverWrapper(TRUE, fsc, t) ELSE fsc
        w1 == IF created THEN WrapperAfterRecover(TRUE, fsc, t, w0) ELSE w0
        scans == created /\ ~recovered
        w2 == IF scans THEN populateChunkMetadata(w1, source[t]) ELSE w1
    IN /\ th.pc = "wrapper"
       /\ data_wrapper_map_' = [data_wrapper_map_ EXCEPT ![t] = w2]
       /\ foreign_storage_cache_' = fsc1
       /\ last_scan' = IF scans THEN [last_scan EXCEPT ![t] = source[t].frags]
                       ELSE last_scan
       /\ in_flight' = [in_flight EXCEPT !.fetch[i].pc = "buffers"]
       /\ UNCHANGED <<aux, is_cache_enabled_, append_mode, source, temp_chunk_buffer_map_,
                      since_refresh, last_cached_scan, last>>

\* Lines 87-89: getChunkBuffersToPopulate, the cache hands out the buffers of
\* the fanout set.
FetchGetBuffers(i) ==
    LET th == in_flight.fetch[i]
        chunk_keys == FanoutKeys(th.chunk_key)
    IN /\ th.pc = "buffers"
       /\ in_flight' = [in_flight EXCEPT
              !.buffers = getChunkBuffersForCaching(@, chunk_keys),
              !.fetch[i] = [th EXCEPT !.pc = "populate", !.dangling = FALSE]]
       /\ foreign_storage_cache_' =
              HiddenUntilPromoted(foreign_storage_cache_, chunk_keys)
       /\ UNCHANGED <<aux, is_cache_enabled_, append_mode, source, data_wrapper_map_,
                      temp_chunk_buffer_map_, since_refresh, last_scan,
                      last_cached_scan, last>>

\* Line 90: populateChunkBuffers, under the wrapper's own lock.
FetchPopulateBegin(i) ==
    LET th == in_flight.fetch[i]
        chunk_keys == IF th.dangling THEN {} ELSE FanoutKeys(th.chunk_key)
        buffers == BeingWritten(in_flight.buffers, chunk_keys)
    IN /\ th.pc = "populate"
       /\ in_flight.wrapper_lock = 0
       /\ in_flight' = [in_flight EXCEPT
              !.wrapper_lock = i,
              !.buffers = buffers,
              !.fetch[i].pc = "populating"]
       /\ foreign_storage_cache_' = SeenThroughCache(foreign_storage_cache_, buffers)
       /\ UNCHANGED <<aux, is_cache_enabled_, append_mode, source, data_wrapper_map_,
                      temp_chunk_buffer_map_, since_refresh, last_scan,
                      last_cached_scan, last>>

FetchPopulateEnd(i) ==
    LET th == in_flight.fetch[i]
        t == TableKeyOf(th.chunk_key)
        chunk_keys == IF th.dangling THEN {} ELSE FanoutKeys(th.chunk_key)
        buffers == Written(in_flight.buffers, source[t], chunk_keys)
    IN /\ th.pc = "populating"
       /\ in_flight' = [in_flight EXCEPT
              !.wrapper_lock = 0,
              !.buffers = buffers,
              !.fetch[i].pc = "copy"]
       /\ foreign_storage_cache_' = SeenThroughCache(foreign_storage_cache_, buffers)
       /\ UNCHANGED <<aux, is_cache_enabled_, append_mode, source, data_wrapper_map_,
                      temp_chunk_buffer_map_, since_refresh, last_scan,
                      last_cached_scan, last>>

\* Lines 93-99: the buffer is copied into the destination.
FetchCopy(i) ==
    LET th == in_flight.fetch[i]
    IN /\ th.pc = "copy"
       \* What copyTo reads through a pointer: the object's contents, or,
       \* when the object was freed, its old contents or anything else.
       /\ \E read \in IF th.dangling THEN {th.was, Garbage}
                      ELSE {in_flight.buffers[th.chunk_key]} :
             in_flight' = [in_flight EXCEPT !.fetch[i] =
                 [th EXCEPT !.dst = read,
                            !.pc = IF WritesBackToCache(is_cache_enabled_, th.cached)
                                   THEN "promote" ELSE "done"]]
       /\ UNCHANGED <<aux, is_cache_enabled_, append_mode, source, data_wrapper_map_,
                      temp_chunk_buffer_map_, foreign_storage_cache_,
                      since_refresh, last_scan, last_cached_scan, last>>

\* Lines 107-109: cacheTableChunks for the keys that were populated.
FetchPromote(i) ==
    LET th == in_flight.fetch[i]
        t == TableKeyOf(th.chunk_key)
        chunk_keys == FanoutKeys(th.chunk_key)
    IN /\ th.pc = "promote"
       /\ foreign_storage_cache_' =
              cacheTableChunks(foreign_storage_cache_, t,
                               PromotedBuffers(in_flight.buffers, chunk_keys))
       /\ in_flight' = [in_flight EXCEPT !.fetch[i].pc = "done"]
       /\ UNCHANGED <<aux, is_cache_enabled_, append_mode, source, data_wrapper_map_,
                      temp_chunk_buffer_map_, since_refresh, last_scan,
                      last_cached_scan, last>>

\* -- refreshTable(table_key, false), statement by statement
\* Lines 310-336: staging is cleared, the wrapper is there, the warm set is
\* read; with an empty warm set the refresh returns.
RefreshStart(t, order) ==
    LET rf == in_flight.refresh
        fsc == foreign_storage_cache_
        created == createDataWrapperIfNotExists(data_wrapper_map_, t)
        w0 == WrappersAfterCreate(data_wrapper_map_, t)[t]
        recovers == created /\ append_mode[t]
        fsc1 == IF recovers THEN CacheAfterRecoverWrapper(TRUE, fsc, t) ELSE fsc
        w1 == IF recovers THEN WrapperAfterRecover(TRUE, fsc, t, w0) ELSE w0
        old_chunk_keys == EnumerateChunks(getCachedChunksForKeyPrefix(fsc1, t), order)
    IN /\ rf.pc = "idle"
       /\ temp_chunk_buffer_map_' =
              clearTempChunkBufferMapEntriesForTable(temp_chunk_buffer_map_, t)
       /\ data_wrapper_map_' = [data_wrapper_map_ EXCEPT ![t] = w1]
       /\ foreign_storage_cache_' = fsc1
       /\ in_flight' = [in_flight EXCEPT !.refresh =
              [rf EXCEPT !.pc = IF old_chunk_keys = <<>> THEN "done" ELSE "scan",
                         !.table = t,
                         !.old_chunk_keys = old_chunk_keys,
                         !.cached_before = fsc1.cached_chunks_]]
       /\ UNCHANGED <<aux, is_cache_enabled_, append_mode, source, since_refresh,
                      last_scan, last_cached_scan, last>>

\* Lines 337-342: the metadata scan and the wrapper's serialized state.
RefreshScan ==
    LET rf == in_flight.refresh
        t == rf.table
        w2 == populateChunkMetadata(data_wrapper_map_[t], source[t])
    IN /\ rf.pc = "scan"
       /\ ~populateChunkMetadataFails(data_wrapper_map_[t], source[t],
                                      append_mode[t], FALSE)
       /\ data_wrapper_map_' = [data_wrapper_map_ EXCEPT ![t] = w2]
       /\ foreign_storage_cache_' = writeWrapperFile(foreign_storage_cache_, t, w2)
       /\ last_scan' = [last_scan EXCEPT ![t] = source[t].frags]
       /\ in_flight' = [in_flight EXCEPT !.refresh.pc = "clear"]
       /\ UNCHANGED <<aux, is_cache_enabled_, append_mode, source, temp_chunk_buffer_map_,
                      since_refresh, last_cached_scan, last>>

\* Lines 344-358: the last fragment id in APPEND mode, the clear in ALL mode.
\* The clear frees the buffers the fetchBuffer calls in flight point to.
RefreshClear ==
    LET rf == in_flight.refresh
        t == rf.table
        append == append_mode[t]
        fsc == foreign_storage_cache_
        fetch == in_flight.fetch
        \* A fetchBuffer call holds pointers into the cache from the statement
        \* that obtained them to the copy into the destination.
        frees(th) == /\ ~append
                     /\ th.pc \in {"populate", "populating", "copy"}
                     /\ TableKeyOf(th.chunk_key) = t
    IN /\ rf.pc = "clear"
       /\ foreign_storage_cache_' = CacheBeforeRecache(fsc, t, append)
       /\ in_flight' = [in_flight EXCEPT
              !.refresh = [rf EXCEPT !.pc = "metadata",
                                     !.last_frag_id = IF append THEN LastFragId(fsc, t)
                                                      ELSE 0],
              \* clearForTablePrefix frees the table's buffer objects.
              !.buffers = IF append THEN @
                          ELSE [k \in AllChunkKeys |->
                                   IF TableKeyOf(k) = t THEN NoBuf ELSE @[k]],
              !.fetch = [i \in FetchThreads |->
                           IF frees(fetch[i]) /\ ~fetch[i].dangling
                           THEN [fetch[i] EXCEPT
                                   !.dangling = TRUE,
                                   !.was = in_flight.buffers[fetch[i].chunk_key]]
                           ELSE fetch[i]]]
       /\ UNCHANGED <<aux, is_cache_enabled_, append_mode, source, data_wrapper_map_,
                      temp_chunk_buffer_map_, since_refresh, last_scan,
                      last_cached_scan, last>>

\* Lines 360-378: the new metadata is cached; the loop over the warm set
\* then makes one populate-buffers call per run of keys of a fragment.
RefreshMetadata ==
    LET rf == in_flight.refresh
        t == rf.table
        append == append_mode[t]
        metadata_vec == ScanResult(t, source[t])
        new_metadata_vec ==
            [k \in {m \in DOMAIN metadata_vec :
                      RecachesMetadata(append, FragmentOf(m), rf.last_frag_id)}
                |-> metadata_vec[k]]
        fsc4 == cacheMetadataVec(foreign_storage_cache_, t, new_metadata_vec)
        st == RepopulateAll(rf.old_chunk_keys, fsc4, append, rf.last_frag_id,
                            source[t], 0, {})
    IN /\ rf.pc = "metadata"
       /\ foreign_storage_cache_' = fsc4
       /\ last_cached_scan' = [last_cached_scan EXCEPT ![t] = source[t].frags]
       /\ in_flight' = [in_flight EXCEPT !.refresh =
              [rf EXCEPT !.pc = IF st.calls = <<>> THEN "promote" ELSE "buffers",
                         !.calls = st.calls,
                         !.chunk_keys_to_be_cached = st.chunk_keys_to_be_cached]]
       /\ UNCHANGED <<aux, is_cache_enabled_, append_mode, source, data_wrapper_map_,
                      temp_chunk_buffer_map_, since_refresh, last_scan, last>>

\* Lines 389-390 and 428-429: the cache hands out the buffers of the keys
\* gathered for the fragment.
RefreshGetBuffers ==
    LET rf == in_flight.refresh
        chunk_keys_in_fragment == Head(rf.calls)
    IN /\ rf.pc = "buffers"
       /\ in_flight' = [in_flight EXCEPT
              !.buffers = getChunkBuffersForCaching(@, chunk_keys_in_fragment),
              !.refresh = [rf EXCEPT !.pc = "populate",
                                     !.chunk_keys_in_fragment = chunk_keys_in_fragment,
                                     !.calls = Tail(@)]]
       /\ foreign_storage_cache_' =
              HiddenUntilPromoted(foreign_storage_cache_, chunk_keys_in_fragment)
       /\ UNCHANGED <<aux, is_cache_enabled_, append_mode, source, data_wrapper_map_,
                      temp_chunk_buffer_map_, since_refresh, last_scan,
                      last_cached_scan, last>>

\* Lines 391 and 430: populateChunkBuffers, under the wrapper's own lock.
RefreshPopulateBegin ==
    LET rf == in_flight.refresh
        buffers == BeingWritten(in_flight.buffers, rf.chunk_keys_in_fragment)
    IN /\ rf.pc = "populate"
       /\ in_flight.wrapper_lock = 0
       /\ in_flight' = [in_flight EXCEPT
              !.wrapper_lock = NumFetchers + 1,
              !.buffers = buffers,
              !.refresh.pc = "populating"]
       /\ foreign_storage_cache_' = SeenThroughCache(foreign_storage_cache_, buffers)
       /\ UNCHANGED <<aux, is_cache_enabled_, append_mode, source, data_wrapper_map_,
                      temp_chunk_buffer_map_, since_refresh, last_scan,
                      last_cached_scan, last>>

RefreshPopulateEnd ==
    LET rf == in_flight.refresh
        buffers == Written(in_flight.buffers, source[rf.table],
                           rf.chunk_keys_in_fragment)
    IN /\ rf.pc = "populating"
       /\ in_flight' = [in_flight EXCEPT
              !.wrapper_lock = 0,
              !.buffers = buffers,
              !.refresh = [rf EXCEPT !.pc = IF rf.calls = <<>> THEN "promote"
                                            ELSE "buffers",
                                     !.chunk_keys_in_fragment = {}]]
       /\ foreign_storage_cache_' = SeenThroughCache(foreign_storage_cache_, buffers)
       /\ UNCHANGED <<aux, is_cache_enabled_, append_mode, source, data_wrapper_map_,
                      temp_chunk_buffer_map_, since_refresh, last_scan,
                      last_cached_scan, last>>

\* Line 433: cacheTableChunks for every key that was populated.
RefreshPromote ==
    LET rf == in_flight.refresh
        t == rf.table
    IN /\ rf.pc = "promote"
       /\ foreign_storage_cache_' =
              cacheTableChunks(foreign_storage_cache_, t,
                               PromotedBuffers(in_flight.buffers,
                                               rf.chunk_keys_to_be_cached))
       /\ since_refresh' = [since_refresh EXCEPT ![t] = {source[t].ver}]
       /\ in_flight' = [in_flight EXCEPT !.refresh.pc = "done"]
       /\ UNCHANGED <<aux, is_cache_enabled_, append_mode, source, data_wrapper_map_,
                      temp_chunk_buffer_map_, last_scan, last_cached_scan, last>>

\* Any thread takes its next statement.
SpecConcurrent ==
    InitConcurrent /\
    [][\/ \E i \in FetchThreads, chunk_key \in QueriedChunkKeys : FetchProbe(i, chunk_key)
       \/ \E i \in FetchThreads : FetchWrapper(i)
       \/ \E i \in FetchThreads : FetchGetBuffers(i)
       \/ \E i \in FetchThreads : FetchPopulateBegin(i)
       \/ \E i \in FetchThreads : FetchPopulateEnd(i)
       \/ \E i \in FetchThreads : FetchCopy(i)
       \/ \E i \in FetchThreads : FetchPromote(i)
       \/ \E t \in QueriedTables, order \in Orders : RefreshStart(t, order)
       \/ RefreshScan
       \/ RefreshClear
       \/ RefreshMetadata
       \/ RefreshGetBuffers
       \/ RefreshPopulateBegin
       \/ RefreshPopulateEnd
       \/ RefreshPromote]_vars

\* ------------------------------------------- fetches after a storage reset
\* resetPersistentStorage replaces the manager and the cache object only: a
\* caller that kept the table's fragment list from before the reset fetches a
\* chunk from the new manager without asking it for metadata first.
CallerKeptChunk(chunk_key) ==
    IF is_cache_enabled_
    THEN foreign_storage_cache_.cached_metadata_[MetaKeyOf(chunk_key)] # NoBuf
    ELSE FragmentOf(chunk_key) < last_scan[TableKeyOf(chunk_key)]

SpecRecover ==
    Init /\
    [][\/ /\ last = NoCall
          /\ \E chunk_key \in QueriedChunkKeys :
                /\ CallerKeptChunk(chunk_key)
                /\ fetchBuffer(chunk_key, FALSE, FALSE, FALSE)
       \/ /\ last = NoCall
          /\ \E t \in QueriedTables : getChunkMetadataVecForKeyPrefix(t, FALSE)
       \/ /\ last = NoCall
          /\ UNCHANGED sched_vars
          /\ \E t \in QueriedTables, evict_cached_entries \in BOOLEAN :
                refreshTable(t, evict_cached_entries, "key", FALSE, 0, {})
       \/ /\ last = NoCall
          /\ \E t \in QueriedTables, src \in Sources : ChangeSource(t, src)
       \/ /\ last = NoCall
          /\ Restart
       \/ Return]_vars

\* --------------------------------------------- the refresh time budget
\* The manager with nothing cached and no call made; the specifications of
\* the timer, the locks and the scheduler start from it.
IdleManager ==
    /\ is_cache_enabled_ = TRUE
    /\ append_mode = [t \in Tables |-> FALSE]
    /\ source = [t \in Tables |-> IdleSource]
    /\ data_wrapper_map_ = [t \in Tables |-> NoWrapper]
    /\ temp_chunk_buffer_map_ = [k \in AllChunkKeys |-> NoBuf]
    /\ foreign_storage_cache_ = EmptyCache
    /\ since_refresh = [t \in Tables |-> {0}]
    /\ last_scan = [t \in Tables |-> 0]
    /\ last_cached_scan = [t \in Tables |-> 0]
    /\ last = NoCall
    /\ in_flight = NothingInFlight

manager_vars == <<is_cache_enabled_, append_mode, source, data_wrapper_map_,
                  temp_chunk_buffer_map_, foreign_storage_cache_,
                  since_refresh, last_scan, last_cached_scan, last, in_flight>>

\* The clock of high_resolution_clock is finer than a second: it counts
\* ticks, TicksPerSecond of them in a second.
TicksPerSecond == 2

\* Warm fragments of the refreshed table.
MaxWarmFragments == 3

BudgetInTicks == MAX_REFRESH_TIME_IN_SECONDS * TicksPerSecond

\* duration_cast<std::chrono::seconds>: whole seconds, the rest is dropped.
duration_cast_seconds(ticks) == ticks \div TicksPerSecond

\* Lines 377-378: total_time{0}, the first fragment_refresh_start_time; the
\* clock counts from the start of re-population.  started_at[i] is the clock
\* when the populateChunkBuffers call of the i-th warm fragment was started.
InitBudget ==
    /\ IdleManager
    /\ now = 0
    /\ foreign_tables = AtRest
    /\ scheduler = AtRest
    /\ data_wrapper_mutex_ = AtRest
    /\ temp_chunk_buffer_map_mutex_ = AtRest
    /\ threads = AtRest
    /\ connection = AtRest
    /\ history = AtRest
    /\ \E n \in 1..MaxWarmFragments :
          \* Times one populateChunkBuffers call may take, in ticks: nothing,
          \* around half the budget, around the budget.
          \E durations \in [1..n -> {0, 1, BudgetInTicks \div 2 - 1,
                                     BudgetInTicks \div 2, BudgetInTicks \div 2 + 1,
                                     BudgetInTicks - 1, BudgetInTicks,
                                     BudgetInTicks + 1}] :
             refresh_timer =
                 [pc |-> "populate", durations |-> durations, fragment |-> 1,
                  clock |-> 0, fragment_refresh_start_time |-> 0,
                  total_time |-> 0, started_at |-> <<>>]

\* Lines 389-393 and 427-431: the keys of one fragment are flushed with one
\* populateChunkBuffers call, which takes its time.
PopulateFragment ==
    LET r == refresh_timer
    IN /\ r.pc = "populate"
       /\ refresh_timer' =
              [r EXCEPT !.started_at = Append(r.started_at, r.clock),
                        !.clock = r.clock + r.durations[r.fragment],
                        !.pc = IF r.fragment < Len(r.durations) THEN "check" ELSE "done"]
       /\ UNCHANGED <<manager_vars, sched_vars, lock_vars, connection, history>>

\* Lines 399-412: at the fragment boundary the time of the fragment is added
\* in whole seconds; at or over the budget the loop is left, otherwise the
\* next fragment starts.
CheckRefreshTime ==
    LET r == refresh_timer
        total_time ==
            r.total_time +
            duration_cast_seconds(r.clock - r.fragment_refresh_start_time)
    IN /\ r.pc = "check"
       /\ refresh_timer' =
              IF RefreshTimeExceeded(total_time)
              THEN [r EXCEPT !.total_time = total_time, !.pc = "stopped"]
              ELSE [r EXCEPT !.total_time = total_time,
                             !.fragment_refresh_start_time = r.clock,
                             !.fragment = r.fragment + 1,
                             !.pc = "populate"]
       /\ UNCHANGED <<manager_vars, sched_vars, lock_vars, connection, history>>

SpecBudget ==
    InitBudget /\
    [][\/ PopulateFragment
       \/ CheckRefreshTime]_vars

\* ------------------------------------------------------ scheduled refresh
\* The catalog's refresh options of a foreign table and the refresh scheduler
\* with its one thread.  Times are seconds on the clock `now`.
NULL_REFRESH_TIME == -1

\* Largest <int> of a refresh_interval '<int><unit>'.
MaxIntervalCount == 2

\* How far the clock is moved: seconds within the hour, hours within the
\* day, days.
MaxSeconds == 1
MaxHours == 1
MaxDays == 1

\* Calls of start() in one run.
MaxStarts == 2

NoInterval == [count |-> 0, unit |-> "none"]

\* '<int>S', '<int>H', '<int>D' in seconds.
interval_duration(refresh_interval) ==
    refresh_interval.count *
        (CASE refresh_interval.unit = "S" -> 1
           [] refresh_interval.unit = "H" -> 60 * 60
           [] refresh_interval.unit = "D" -> 60 * 60 * 24
           [] OTHER -> 0)

\* A table as CREATE FOREIGN TABLE leaves it: a SCHEDULED table is first due
\* at its refresh_start_date_time, which is not in the past.
ManualTable ==
    [timing |-> "MANUAL", refresh_interval |-> NoInterval,
     last_refresh_time |-> NULL_REFRESH_TIME, next_refresh_time |-> NULL_REFRESH_TIME]

ScheduledTable(refresh_start_date_time, refresh_interval) ==
    [timing |-> "SCHEDULED", refresh_interval |-> refresh_interval,
     last_refresh_time |-> NULL_REFRESH_TIME,
     next_refresh_time |-> refresh_start_date_time]

\* The variant that looks at the timing type alone.
IsScheduled(table, current_time) == table.timing = "SCHEDULED"

\* The scheduler's test on each tick.
IsDueForRefresh(table, current_time) ==
    /\ table.timing = "SCHEDULED"
    /\ table.next_refresh_time # NULL_REFRESH_TIME
    /\ table.next_refresh_time <= current_time

\* The variant that counts every interval in seconds.
get_next_refresh_time_in_seconds(table, last_refresh_time) ==
    IF table.timing = "SCHEDULED" /\ table.refresh_interval # NoInterval
    THEN last_refresh_time + table.refresh_interval.count
    ELSE NULL_REFRESH_TIME

\* next_refresh_time = last + interval, or null if no interval.
get_next_refresh_time(table, last_refresh_time) ==
    IF table.timing = "SCHEDULED" /\ table.refresh_interval # NoInterval
    THEN last_refresh_time + interval_duration(table.refresh_interval)
    ELSE NULL_REFRESH_TIME

\* The refresh command: the manager's refresh, then the table's refresh times.
refresh_foreign_table(t, evict_cached_entries) ==
    /\ refreshTable(t, evict_cached_entries, "key", FALSE, 0, {})
    /\ foreign_tables' =
           [foreign_tables EXCEPT
              ![t].last_refresh_time = now,
              ![t].next_refresh_time = get_next_refresh_time(foreign_tables[t], now)]

\* The tables in the order the scheduler scans them.
ForeignTablesForRefresh == [i \in 1..NumTables |-> <<1, i>>]

\* The server has scanned the queried table and some of its fragments are
\* warm in the cache.  The queried table is MANUAL or SCHEDULED with a start
\* time one second ahead and any interval '<int><unit>' or none; the other
\* tables are MANUAL or refreshed once.  The scheduler is stopped.
InitScheduler ==
    /\ is_cache_enabled_ = TRUE
    /\ append_mode = [t \in Tables |-> FALSE]
    /\ source = [t \in Tables |-> IdleSource]
    /\ \E warm \in SUBSET (0..(IdleSource.frags - 1)) :
          foreign_storage_cache_ = WarmCache(<<1, 1>>, IdleSource.frags, warm)
    /\ data_wrapper_map_ =
           [t \in Tables |->
              IF t \in QueriedTables
              THEN [exists |-> TRUE, scanned |-> source[t].frags, restored |-> FALSE]
              ELSE NoWrapper]
    /\ temp_chunk_buffer_map_ = [k \in AllChunkKeys |-> NoBuf]
    /\ since_refresh = [t \in Tables |-> {0}]
    /\ last_scan = [t \in Tables |-> IF t \in QueriedTables THEN source[t].frags ELSE 0]
    /\ last_cached_scan = last_scan
    /\ last = NoCall
    /\ in_flight = NothingInFlight
    /\ now = 0
    /\ foreign_tables \in
           [Tables ->
              {ManualTable, ScheduledTable(1, NoInterval)} \cup
              {ScheduledTable(1, [count |-> n, unit |-> u]) :
                   n \in 1..MaxIntervalCount, u \in {"S", "H", "D"}}]
    /\ \A t \in Tables \ QueriedTables :
           foreign_tables[t] \in {ManualTable, ScheduledTable(1, NoInterval)}
    /\ scheduler =
           [is_scheduler_running_ |-> FALSE, thread |-> "none", remaining |-> <<>>,
            stop_called |-> FALSE, n_starts |-> 0]
    /\ refresh_timer = AtRest
    /\ data_wrapper_mutex_ = AtRest
    /\ temp_chunk_buffer_map_mutex_ = AtRest
    /\ threads = AtRest
    /\ connection = AtRest
    /\ history = AtRest

\* The variant whose loop never looks at the flag.
NeverLeavesLoop(sched) == FALSE

\* The loop exits when the running flag has gone false.
LeavesLoop(sched) == ~sched.is_scheduler_running_

\* start(): a stopped scheduler gets its thread, which sleeps one tick first.
start ==
    /\ ~scheduler.is_scheduler_running_
    /\ scheduler.thread = "none"
    /\ scheduler.n_starts < MaxStarts
    /\ scheduler' = [scheduler EXCEPT !.is_scheduler_running_ = TRUE,
                                      !.thread = "sleeping",
                                      !.n_starts = @ + 1]
    /\ UNCHANGED <<manager_vars, now, foreign_tables, refresh_timer, lock_vars, connection, history>>

\* stop(): the running flag goes false; the call returns in StopReturns.
stop ==
    /\ scheduler.is_scheduler_running_
    /\ scheduler' = [scheduler EXCEPT !.is_scheduler_running_ = FALSE,
                                      !.stop_called = TRUE]
    /\ UNCHANGED <<manager_vars, now, foreign_tables, refresh_timer, lock_vars, connection, history>>

\* stop() has joined the thread.
StopReturns ==
    /\ scheduler.stop_called
    /\ scheduler.thread = "exited"
    /\ scheduler' = [scheduler EXCEPT !.thread = "none", !.stop_called = FALSE]
    /\ UNCHANGED <<manager_vars, now, foreign_tables, refresh_timer, lock_vars, connection, history>>

\* The thread's sleep of one tick is over: it leaves the loop when the flag
\* is false and scans the tables otherwise.
SchedulerWakes ==
    /\ scheduler.thread = "sleeping"
    /\ scheduler' =
           IF LeavesLoop(scheduler)
           THEN [scheduler EXCEPT !.thread = "exited"]
           ELSE [scheduler EXCEPT !.thread = "scanning",
                                  !.remaining = ForeignTablesForRefresh]
    /\ UNCHANGED <<manager_vars, now, foreign_tables, refresh_timer, lock_vars, connection, history>>

\* The scan reaches the next table: a due table is refreshed without
\* eviction and its refresh times are moved on; after the last table the
\* thread sleeps again.
SchedulerScansTable ==
    LET t == Head(scheduler.remaining)
        rest == Tail(scheduler.remaining)
        after == [scheduler EXCEPT
                    !.remaining = rest,
                    !.thread = IF rest = <<>> THEN "sleeping" ELSE "scanning"]
    IN /\ scheduler.thread = "scanning"
       /\ last = NoCall
       /\ UNCHANGED now
       /\ IF LeavesLoop(scheduler)
          THEN /\ scheduler' = [scheduler EXCEPT !.thread = "exited", !.remaining = <<>>]
               /\ UNCHANGED <<manager_vars, foreign_tables, refresh_timer, lock_vars, connection, history>>
          ELSE IF IsDueForRefresh(foreign_tables[t], now)
          THEN /\ refresh_foreign_table(t, FALSE)
               /\ scheduler' = after
          ELSE /\ scheduler' = after
               /\ UNCHANGED <<manager_vars, foreign_tables, refresh_timer, lock_vars, connection, history>>

\* REFRESH FOREIGN TABLES t WITH (evict = ...) on a MANUAL table.
ManualRefresh(t, evict_cached_entries) ==
    /\ last = NoCall
    /\ foreign_tables[t].timing = "MANUAL"
    /\ refresh_foreign_table(t, evict_cached_entries)
    /\ UNCHANGED <<now, scheduler>>

\* Time passes: a second, an hour or a day.
ClockAdvances ==
    /\ \/ /\ now % (60 * 60) < MaxSeconds
          /\ now' = now + 1
       \/ /\ (now \div (60 * 60)) % 24 < MaxHours
          /\ now' = now + 60 * 60
       \/ /\ now \div (60 * 60 * 24) < MaxDays
          /\ now' = now + 60 * 60 * 24
    /\ UNCHANGED <<manager_vars, foreign_tables, scheduler, refresh_timer, lock_vars, connection, history>>

SpecScheduler ==
    InitScheduler /\
    [][\/ start
       \/ stop
       \/ StopReturns
       \/ SchedulerWakes
       \/ SchedulerScansTable
       \/ \E t \in Tables, evict_cached_entries \in BOOLEAN :
             ManualRefresh(t, evict_cached_entries)
       \/ ClockAdvances
       \/ Return]_vars

\* --------------------------------------------------- the manager's locks
\* The calls of several threads at the level of their lock statements, their
\* accesses to data_wrapper_map_ and their calls of wrapper methods.  In this
\* specification foreign_tables[t] is the data_wrapper_type of the table's
\* server; a mutex is [readers |-> threads holding it shared, writer |-> the
\* thread holding it exclusively or 0].

\* The variant that takes the map's mutex shared.
createLockShared == "lock_shared"

\* Line 256: std::lock_guard data_wrapper_lock(data_wrapper_mutex_).
createLock == "lock"

\* The statements of an operation that touch a mutex, the wrappers map or a
\* wrapper, in program order: what is done, on which mutex, at which line,
\* and for a conditional how many statements are skipped.
ManagerOperation(op) ==
    LET S(do, m, line) == [do |-> do, m |-> m, line |-> line, skip |-> 0]
        \* createDataWrapperIfNotExists, lines 255-276
        Create == <<S(createLock, "wrappers", 256), S("find", "none", 258),
                    S("insert", "none", 262), S("unlock", "wrappers", 275)>>
        \* getDataWrapper(key)->method(...), lines 237-243 and the call
        Call(line) == <<S("lock_shared", "wrappers", 239), S("check", "none", 241),
                        S("unlock", "wrappers", 242), S("call", "none", line)>>
        \* clearTempChunkBufferMapEntriesForTable, lines 449-459
        ClearStaging == <<S("lock", "staging", 452), S("unlock", "staging", 459)>>
    IN CASE op = "fetchBuffer" ->
              \* the miss path, lines 63-104; 78-86 only for a new wrapper
              <<S("lock_shared", "staging", 65), S("unlock", "staging", 71)>> \o
              Create \o
              <<[do |-> "unless_created", m |-> "none", line |-> 77, skip |-> 4]>> \o
              Call(83) \o
              <<S("lock", "staging", 150), S("unlock", "staging", 153)>> \o
              Call(90) \o
              <<S("lock", "staging", 102), S("unlock", "staging", 104)>>
         [] op = "getChunkMetadataVec" ->
              \* lines 163-177
              <<S("lock_shared", "wrappers", 164), S("call_each", "none", 166),
                S("call_each", "none", 168), S("unlock", "wrappers", 177)>>
         [] op = "getChunkMetadataVecForKeyPrefix" ->
              \* lines 188-205, metadata not cached
              <<S("find", "none", 190)>> \o Create \o Call(197) \o Call(199)
         [] op = "removeTableRelatedDS" ->
              \* lines 208-221
              <<S("lock", "wrappers", 211), S("erase", "none", 212),
                S("unlock", "wrappers", 213)>> \o ClearStaging
         [] op = "refreshTable" ->
              \* lines 310-318 and 320-438 without eviction
              ClearStaging \o Create \o Call(339) \o Call(340) \o Call(391)
         [] OTHER -> <<>>

IdleThread ==
    [op |-> "none", table |-> <<>>, pc |-> 0, found |-> FALSE, created |-> "none",
     held_at_call |-> {}, access |-> "none", called_unprimed |-> FALSE]

InitLocks ==
    /\ IdleManager
    /\ now = 0
    /\ scheduler = AtRest
    /\ refresh_timer = AtRest
    /\ foreign_tables \in [Tables -> {"CSV", "PARQUET", "OTHER"}]
    /\ \A t \in Tables \ QueriedTables : foreign_tables[t] = "CSV"
    /\ data_wrapper_mutex_ = [readers |-> {}, writer |-> 0]
    /\ temp_chunk_buffer_map_mutex_ = [readers |-> {}, writer |-> 0]
    /\ threads = [i \in FetchThreads |-> IdleThread]
    /\ connection = AtRest
    /\ history = AtRest

\* A thread calls an operation of the manager for a table.
StartOperation(i, op, t) ==
    /\ threads[i].op = "none"
    /\ ManagerOperation(op) # <<>>
    /\ threads' = [threads EXCEPT ![i] = [IdleThread EXCEPT !.op = op, !.table = t,
                                                           !.pc = 1]]
    /\ UNCHANGED <<is_cache_enabled_, append_mode, source, data_wrapper_map_,
                   temp_chunk_buffer_map_, foreign_storage_cache_, since_refresh,
                   last_scan, last_cached_scan, last, in_flight, sched_vars,
                   refresh_timer, data_wrapper_mutex_, temp_chunk_buffer_map_mutex_,
                   connection, history>>

\* A thread takes its next statement.  A lock waits until the mutex is free;
\* an exception (unsupported wrapper type) and a failed CHECK end the call
\* and release the mutex the frame holds.
TakeStep(i) ==
    LET th == threads[i]
        t == th.table
        exists == data_wrapper_map_[t].exists
        supported == foreign_tables[t] \in {"CSV", "PARQUET"}
        w == data_wrapper_mutex_
        held == {m \in {"wrappers"} : i \in w.readers \/ w.writer = i} \cup
                {m \in {"staging"} :
                     \/ i \in temp_chunk_buffer_map_mutex_.readers
                     \/ temp_chunk_buffer_map_mutex_.writer = i}
    IN
    /\ th.op # "none"
    /\ \E statements \in {ManagerOperation(th.op)} :
       \E s \in {statements[th.pc]} :
       LET
        \* the statement decides what the step does
        throws == s.do = "insert" /\ ~th.found /\ ~supported
        aborts == s.do = "check" /\ ~exists
        writes == \/ s.do = "insert" /\ ~th.found /\ supported
                  \/ s.do = "erase"
        reads == s.do \in {"find", "check"}
        \* populateChunkMetadata (lines 83, 197, 339) primes the wrapper that
        \* populateChunkBuffers (lines 90, 391) reads from
        scans == s.do = "call" /\ s.line \in {83, 197, 339}
        populates == s.do = "call" /\ s.line \in {90, 391}
        primed == data_wrapper_map_[t].scanned > 0 \/ data_wrapper_map_[t].restored
        access == IF writes /\ w.writer = i THEN "guarded"
                  ELSE IF reads /\ "wrappers" \in held THEN "guarded"
                  ELSE IF w.writer \notin {0, i} THEN "raced"
                  ELSE "unguarded"
        released(mutex) ==
            [readers |-> mutex.readers \ {i},
             writer |-> IF mutex.writer = i THEN 0 ELSE mutex.writer]
        after(mutex, m) ==
            IF throws \/ aborts THEN released(mutex)
            ELSE IF s.m # m THEN mutex
            ELSE CASE s.do = "lock" -> [mutex EXCEPT !.writer = i]
                   [] s.do = "lock_shared" -> [mutex EXCEPT !.readers = @ \cup {i}]
                   [] OTHER -> released(mutex)
        th1 == CASE s.do \in {"find", "check"} ->
                      [th EXCEPT !.found = exists, !.access = access]
                 [] s.do = "insert" ->
                      [th EXCEPT !.created = IF th.found THEN "false"
                                             ELSE IF supported THEN "true"
                                             ELSE "throws",
                                 !.access = IF writes THEN access ELSE @]
                 [] s.do = "erase" -> [th EXCEPT !.access = access]
                 [] s.do = "call" ->
                      [th EXCEPT !.held_at_call = held,
                                 !.called_unprimed = populates /\ ~primed]
                 [] s.do = "call_each" ->
                      IF \E tb \in Tables : data_wrapper_map_[tb].exists
                      THEN [th EXCEPT !.held_at_call = held]
                      ELSE th
                 [] OTHER -> th
        pc == th.pc + 1 +
                  (IF s.do = "unless_created" /\ th.created # "true" THEN s.skip ELSE 0)
       IN
       /\ s.do = "lock" =>
              IF s.m = "wrappers"
              THEN w.writer = 0 /\ w.readers = {}
              ELSE /\ temp_chunk_buffer_map_mutex_.writer = 0
                   /\ temp_chunk_buffer_map_mutex_.readers = {}
       /\ s.do = "lock_shared" =>
              IF s.m = "wrappers"
              THEN w.writer = 0
              ELSE temp_chunk_buffer_map_mutex_.writer = 0
       /\ data_wrapper_mutex_' = after(w, "wrappers")
       /\ temp_chunk_buffer_map_mutex_' = after(temp_chunk_buffer_map_mutex_, "staging")
       /\ data_wrapper_map_' =
              IF s.do = "insert" /\ ~th.found /\ supported
              THEN [data_wrapper_map_ EXCEPT ![t] = NewWrapper]
              ELSE IF s.do = "erase"
              THEN [data_wrapper_map_ EXCEPT ![t] = NoWrapper]
              ELSE IF scans
              THEN [data_wrapper_map_ EXCEPT ![t] = populateChunkMetadata(@, source[t])]
              ELSE data_wrapper_map_
       /\ threads' =
              [threads EXCEPT ![i] =
                  IF throws \/ aborts
                  THEN [IdleThread EXCEPT !.created = th1.created]
                  ELSE IF pc > Len(statements)
                  THEN IdleThread
                  ELSE [th1 EXCEPT !.pc = pc]]
       /\ UNCHANGED <<is_cache_enabled_, append_mode, source, temp_chunk_buffer_map_,
                      foreign_storage_cache_, since_refresh, last_scan,
                      last_cached_scan, last, in_flight, sched_vars, refresh_timer,
                      connection, history>>

SpecLocks ==
    InitLocks /\
    [][\/ \E i \in FetchThreads, t \in Tables :
             \E op \in {"fetchBuffer", "getChunkMetadataVecForKeyPrefix",
                        "removeTableRelatedDS", "refreshTable"} :
                StartOperation(i, op, t)
       \/ \E i \in FetchThreads : StartOperation(i, "getChunkMetadataVec", <<1, 1>>)
       \/ \E i \in FetchThreads : TakeStep(i)]_vars

\* ------------------------------------ one fanout set, chunk by chunk
\* The buffer manager asks for the chunks of a fragment one at a time, each
\* once, with the cache disabled; history.fetched are the keys it has been
\* given, history.n_populate the populate-buffers calls made per fragment.
InitFanout ==
    /\ is_cache_enabled_ = FALSE
    /\ append_mode = [t \in Tables |-> FALSE]
    /\ source \in [Tables -> Sources]
    /\ \A t \in Tables \ QueriedTables : source[t] = IdleSource
    /\ \E scanned \in BOOLEAN :
          /\ data_wrapper_map_ =
                 [t \in Tables |->
                    IF scanned /\ t \in QueriedTables
                    THEN populateChunkMetadata(NewWrapper, source[t])
                    ELSE NoWrapper]
          /\ last_scan = [t \in Tables |-> data_wrapper_map_[t].scanned]
    /\ temp_chunk_buffer_map_ = [k \in AllChunkKeys |-> NoBuf]
    /\ foreign_storage_cache_ = EmptyCache
    /\ since_refresh = [t \in Tables |-> {source[t].ver}]
    /\ last_cached_scan = [t \in Tables |-> 0]
    /\ last = NoCall
    /\ in_flight = NothingInFlight
    /\ now = 0
    /\ foreign_tables = AtRest
    /\ scheduler = AtRest
    /\ refresh_timer = AtRest
    /\ data_wrapper_mutex_ = AtRest
    /\ temp_chunk_buffer_map_mutex_ = AtRest
    /\ threads = AtRest
    /\ connection = AtRest
    /\ history = [fetched |-> {}, n_populate |-> [f \in Frags |-> 0]]

\* fetchBuffer of a key of the table's fragments that was not asked for yet.
FetchOnce ==
    /\ last = NoCall
    /\ \E chunk_key \in QueriedChunkKeys \ history.fetched :
          /\ FragmentOf(chunk_key) < source[TableKeyOf(chunk_key)].frags
          /\ fetchBuffer(chunk_key, FALSE, FALSE, FALSE)

\* The caller takes the chunk; the history records the call.
TakeChunk ==
    /\ last # NoCall
    /\ last' = NoCall
    /\ history' = [fetched |-> history.fetched \cup {last.key},
                   n_populate |-> [history.n_populate EXCEPT
                                      ![FragmentOf(last.key)] = @ + last.n_buffers]]
    /\ UNCHANGED <<is_cache_enabled_, append_mode, source, data_wrapper_map_,
                   temp_chunk_buffer_map_, foreign_storage_cache_, since_refresh,
                   last_scan, last_cached_scan, in_flight, sched_vars,
                   refresh_timer, lock_vars, connection>>

SpecFanout == InitFanout /\ [][FetchOnce \/ TakeChunk]_vars

\* ------------------------------------------------------- TcpConnection
\* Requests a connection processes and sub-buffers of one reply, at most.
MaxRequests == 3

MaxSubBuffers == 2

\* A connection the server has accepted, before start().  pc is the
\* asynchronous operation outstanding on the socket; output is the
\* OutputBuffer the bound handleWrite refers to (its queue of sub-buffers)
\* and output_alive whether that object still exists; write_buffer is the
\* sub-buffer the boost buffer of the write points at and whether it was
\* freed; sent is what the last write put on the socket.
InitTcp ==
    /\ IdleManager
    /\ now = 0
    /\ foreign_tables = AtRest
    /\ scheduler = AtRest
    /\ refresh_timer = AtRest
    /\ data_wrapper_mutex_ = AtRest
    /\ temp_chunk_buffer_map_mutex_ = AtRest
    /\ threads = AtRest
    /\ history = AtRest
    /\ connection = [pc |-> "accepted", output |-> <<>>, output_alive |-> FALSE,
                     write_buffer |-> [bytes |-> <<>>, freed |-> FALSE],
                     sent |-> <<>>, n_requests |-> 0, n_writes |-> 0,
                     errored |-> FALSE]

\* start(): async_read_until the query delimiter, handleRead bound.
TcpConnection_start ==
    /\ connection.pc = "accepted"
    /\ connection' = [connection EXCEPT !.pc = "reading"]
    /\ UNCHANGED <<manager_vars, sched_vars, refresh_timer, lock_vars, history>>

\* writeOutput: with sub-buffers queued, a boost buffer over the front
\* sub-buffer is made, the sub-buffer is popped (its vector is freed) and
\* async_write is started on the boost buffer with handleWrite bound to a
\* reference to outputBuffer; with none queued, start() reads again.
writeOutput(c, outputBuffer) ==
    IF Len(outputBuffer) > 0
    THEN [c EXCEPT !.pc = "writing",
                   !.write_buffer = [bytes |-> Head(outputBuffer), freed |-> TRUE],
                   !.output = Tail(outputBuffer),
                   !.n_writes = @ + 1]
    ELSE [c EXCEPT !.pc = "reading", !.output = <<>>]

\* Faulty variant: the handler reads again after an error.
ReadsAgainAfterError(c) == [c EXCEPT !.pc = "reading", !.errored = TRUE]

\* A handler that got an error starts nothing: the last shared_ptr to the
\* connection goes and the destructor closes the socket.
NothingStartedAfterError(c) == [c EXCEPT !.pc = "closed", !.errored = TRUE]

\* handleRead: the read has completed.  Without an error the request is
\* processed into a local OutputBuffer and writeOutput is called on it; the
\* local is destroyed when the handler returns.
handleRead ==
    /\ connection.pc = "reading"
    /\ \/ /\ connection.n_requests < MaxRequests
          /\ \E n \in 0..MaxSubBuffers :
                LET request == connection.n_requests + 1
                    outputBuffer == [i \in 1..n |-> <<request, i>>]
                IN connection' =
                       [writeOutput(connection, outputBuffer) EXCEPT
                           !.n_requests = request,
                           !.output_alive = FALSE]
       \/ connection' = NothingStartedAfterError(connection)
    /\ UNCHANGED <<manager_vars, sched_vars, refresh_timer, lock_vars, history>>

\* What a read of freed memory gives besides what was there.
Junk == <<0, 0>>

\* The socket write of async_write: the bytes are read through the boost
\* buffer.
AsyncWrite ==
    /\ connection.pc = "writing"
    /\ \E bytes \in IF connection.write_buffer.freed
                    THEN {connection.write_buffer.bytes, Junk}
                    ELSE {connection.write_buffer.bytes} :
          connection' = [connection EXCEPT !.pc = "written", !.sent = bytes]
    /\ UNCHANGED <<manager_vars, sched_vars, refresh_timer, lock_vars, history>>

\* handleWrite: the write has completed or failed.  Without an error
\* writeOutput is called on the OutputBuffer the handler was bound to; when
\* that object is gone the call reads freed memory: it may find the old
\* queue, an empty one or junk, or the process dies.
handleWrite ==
    /\ connection.pc \in {"writing", "written"}
    /\ \/ /\ connection.pc = "written"
          /\ connection.n_writes < MaxRequests * MaxSubBuffers
          /\ \E outputBuffer \in IF connection.output_alive
                                 THEN {connection.output}
                                 ELSE {connection.output, <<>>, <<Junk>>} :
                connection' = writeOutput(connection, outputBuffer)
       \/ /\ connection.pc = "written"
          /\ ~connection.output_alive
          /\ connection' = [connection EXCEPT !.pc = "crashed"]
       \/ connection' = NothingStartedAfterError(connection)
    /\ UNCHANGED <<manager_vars, sched_vars, refresh_timer, lock_vars, history>>

SpecTcp ==
    InitTcp /\ [][TcpConnection_start \/ handleRead \/ AsyncWrite \/ handleWrite]_vars

\* ------------------------------- the staging map under concurrent calls
\* fetchBuffer statement by statement with the cache disabled, on several
\* threads, and refreshTable on another.  A call keeps raw pointers to
\* staging buffers: held are the keys of the buffers it points to, freed
\* those of them whose buffer was destroyed since (erased from the map or
\* replaced in it); found is what the staging probe saw in the buffer and
\* dst what copyTo read from it, until the call returns.
IdleStagedFetch ==
    [pc |-> "idle", chunk_key |-> <<>>, held |-> {}, freed |-> {},
     found |-> NoBuf, dst |-> NoBuf]

\* The wrappers were created and scanned by the metadata calls of the
\* queries (getChunkMetadataVecForKeyPrefix) before their chunks are fetched.
InitStaging ==
    /\ is_cache_enabled_ = FALSE
    /\ append_mode = [t \in Tables |-> FALSE]
    /\ source \in [Tables -> Sources]
    /\ \A t \in Tables : source[t].ver = 0
    /\ \A t \in Tables \ QueriedTables : source[t] = IdleSource
    /\ data_wrapper_map_ = [t \in Tables |-> populateChunkMetadata(NewWrapper, source[t])]
    /\ last_scan = [t \in Tables |-> source[t].frags]
    /\ temp_chunk_buffer_map_ = [k \in AllChunkKeys |-> NoBuf]
    /\ foreign_storage_cache_ = EmptyCache
    /\ since_refresh = [t \in Tables |-> {0}]
    /\ last_cached_scan = [t \in Tables |-> 0]
    /\ last = NoCall
    /\ in_flight = [fetch |-> [i \in FetchThreads |-> IdleStagedFetch],
                    wrapper_lock |-> 0]
    /\ NothingElse

\* The buffers of keys are destroyed: every other call that points to one
\* of them is left with a dangling pointer.
DestroyedUnder(fetch, keys, i) ==
    [j \in FetchThreads |->
        IF j = i THEN fetch[j]
        ELSE [fetch[j] EXCEPT !.freed = @ \cup (fetch[j].held \cap keys)]]

\* Lines 63-71: the staging probe, under the shared lock.
StagedProbe(i, chunk_key) ==
    LET th == in_flight.fetch[i]
        buffer == temp_chunk_buffer_map_[chunk_key]
    IN /\ th.pc = "idle"
       /\ CallerKnowsChunk(chunk_key)
       /\ in_flight' = [in_flight EXCEPT !.fetch[i] =
              IF buffer # NoBuf
              THEN [IdleStagedFetch EXCEPT !.pc = "copy", !.chunk_key = chunk_key,
                                           !.held = {chunk_key}, !.found = buffer]
              ELSE [IdleStagedFetch EXCEPT !.pc = "buffers", !.chunk_key = chunk_key]]
       /\ UNCHANGED <<aux, is_cache_enabled_, append_mode, source, data_wrapper_map_,
                      temp_chunk_buffer_map_, foreign_storage_cache_,
                      since_refresh, last_scan, last_cached_scan, last>>

\* Lines 87-89 and 146-154: every sibling gets a new staging buffer, which
\* replaces the one the map had; the required map points to the new ones.
StagedGetBuffers(i) ==
    LET th == in_flight.fetch[i]
        siblings == FanoutKeys(th.chunk_key) \ {th.chunk_key}
        replaced == {k \in siblings : temp_chunk_buffer_map_[k] # NoBuf}
    IN /\ th.pc = "buffers"
       /\ temp_chunk_buffer_map_' =
              StagingAfterGetBuffers(temp_chunk_buffer_map_, th.chunk_key)
       /\ in_flight' = [in_flight EXCEPT !.fetch =
              [DestroyedUnder(@, replaced, i) EXCEPT
                  ![i] = [th EXCEPT !.pc = "populate", !.held = siblings]]]
       /\ UNCHANGED <<aux, is_cache_enabled_, append_mode, source, data_wrapper_map_,
                      foreign_storage_cache_, since_refresh, last_scan,
                      last_cached_scan, last>>

\* Line 90: populateChunkBuffers, under the wrapper's own lock, writes into
\* the buffers of the required map: first a part, then all.  What it writes
\* through a dangling pointer does not reach the map.
StagedPopulate(i) ==
    LET th == in_flight.fetch[i]
        t == TableKeyOf(th.chunk_key)
        keys == th.held \ th.freed
    IN /\ \/ /\ th.pc = "populate"
             /\ in_flight.wrapper_lock = 0
             /\ temp_chunk_buffer_map_' = BeingWritten(temp_chunk_buffer_map_, keys)
             /\ in_flight' = [in_flight EXCEPT !.wrapper_lock = i,
                                               !.fetch[i].pc = "populating"]
          \/ /\ th.pc = "populating"
             /\ temp_chunk_buffer_map_' = Written(temp_chunk_buffer_map_, source[t], keys)
             /\ in_flight' = [in_flight EXCEPT
                    !.wrapper_lock = 0,
                    !.fetch[i] = IdleStagedFetch]
       /\ UNCHANGED <<aux, is_cache_enabled_, append_mode, source, data_wrapper_map_,
                      foreign_storage_cache_, since_refresh, last_scan,
                      last_cached_scan, last>>

\* Lines 97-99: copyTo reads the staging buffer the probe found.
StagedCopy(i) ==
    LET th == in_flight.fetch[i]
    IN /\ th.pc = "copy"
       /\ \E read \in IF th.freed # {} THEN {th.found, Garbage}
                      ELSE {temp_chunk_buffer_map_[th.chunk_key]} :
             in_flight' = [in_flight EXCEPT !.fetch[i] =
                              [th EXCEPT !.pc = "erase", !.dst = read]]
       /\ UNCHANGED <<aux, is_cache_enabled_, append_mode, source, data_wrapper_map_,
                      temp_chunk_buffer_map_, foreign_storage_cache_,
                      since_refresh, last_scan, last_cached_scan, last>>

\* Lines 101-104: the consumed entry is erased under the mutex.
StagedErase(i) ==
    LET th == in_flight.fetch[i]
    IN /\ th.pc = "erase"
       /\ temp_chunk_buffer_map_' = [temp_chunk_buffer_map_ EXCEPT ![th.chunk_key] = NoBuf]
       /\ in_flight' = [in_flight EXCEPT !.fetch =
              [DestroyedUnder(@, {th.chunk_key}, i) EXCEPT
                  ![i] = IdleStagedFetch]]
       /\ UNCHANGED <<aux, is_cache_enabled_, append_mode, source, data_wrapper_map_,
                      foreign_storage_cache_, since_refresh, last_scan,
                      last_cached_scan, last>>

\* refreshTable on another thread: with the cache disabled it is
\* clearTempChunkBufferMapEntriesForTable and nothing else.
StagedRefresh(t) ==
    /\ \E k \in TableChunkKeys(t) : temp_chunk_buffer_map_[k] # NoBuf
    /\ temp_chunk_buffer_map_' =
           clearTempChunkBufferMapEntriesForTable(temp_chunk_buffer_map_, t)
    /\ in_flight' = [in_flight EXCEPT !.fetch =
           DestroyedUnder(@, TableChunkKeys(t), 0)]
    /\ UNCHANGED <<aux, is_cache_enabled_, append_mode, source, data_wrapper_map_,
                   foreign_storage_cache_, since_refresh, last_scan,
                   last_cached_scan, last>>

SpecStaging ==
    InitStaging /\
    [][\/ \E i \in FetchThreads, chunk_key \in QueriedChunkKeys :
             StagedProbe(i, chunk_key)
       \/ \E i \in FetchThreads : StagedGetBuffers(i)
       \/ \E i \in FetchThreads : StagedPopulate(i)
       \/ \E i \in FetchThreads : StagedCopy(i)
       \/ \E i \in FetchThreads : StagedErase(i)
       \/ \E t \in QueriedTables : StagedRefresh(t)]_vars

\* ================================================================== claims
\* The chunk getCachedChunkIfExists reports for a key, and whether it does.
CachedChunk(k) == getCachedChunkIfExists(foreign_storage_cache_, k)

IsCached(k) == CachedChunk(k) # NoBuf

HasMetadata(k) == isMetadataCached(foreign_storage_cache_, MetaKeyOf(k))

FetchReturned == last.op = "fetchBuffer" /\ last.status = "ok"

\* C1: every successful fetchBuffer of k delivers bytes the wrapper produced
\* for k from a version of the source that existed since the last refresh of
\* k's table (or since the table was created).
C1_DeliveredSinceRefresh ==
    FetchReturned =>
        \E ver \in since_refresh[TableKeyOf(last.key)] :
            last.out = BytesOfVersion(ver, last.key)

ReportedBy(t, n) == {k \in TableMetaKeys(t) : FragmentOf(k) < n}

MetadataCompleteFor(t, n) ==
    hasCachedMetadataForKeyPrefix(foreign_storage_cache_, t) =>
        \A k \in ReportedBy(t, n) : isMetadataCached(foreign_storage_cache_, k)

\* C3 as stated: if metadata is cached for any chunk of a table, it is cached
\* for every chunk the table's most recent successful metadata scan reported.
C3_MostRecentScan == \A t \in Tables : MetadataCompleteFor(t, last_scan[t])

\* C3: if metadata is cached for any chunk of a table, it is cached for every
\* chunk reported by the most recent scan whose result was handed to the cache
\* (getChunkMetadataVecForKeyPrefix or a refresh); the scan that primes a new
\* wrapper inside fetchBuffer is not such a scan.
C3_MostRecentCachedScan == \A t \in Tables : MetadataCompleteFor(t, last_cached_scan[t])

\* An APPEND refresh re-cached only the fragments at or above a last_frag_id
\* greater than zero.
C3_Witness ==
    /\ last.op = "refreshTable"
    /\ last.status = "ok"
    /\ ~last.evict
    /\ last.last_frag_id > 0
    /\ append_mode[last.key]
    /\ hasCachedMetadataForKeyPrefix(foreign_storage_cache_, last.key)

\* The chunk keys of the physical columns of k's logical column in k's fragment.
SameLogicalColumn(k) ==
    {j \in AllChunkKeys :
        /\ TableKeyOf(j) = TableKeyOf(k)
        /\ FragmentOf(j) = FragmentOf(k)
        /\ getLogicalColumn(ColumnOf(j)) = getLogicalColumn(ColumnOf(k))}

\* C4: after a successful cache-enabled fetchBuffer miss every chunk of the
\* requested key's logical column and fragment is cached, and the data and
\* index chunks of a variable-length column are always cached together.
C4_FanoutCachedTogether ==
    /\ (is_cache_enabled_ /\ FetchReturned /\ ~last.cached) =>
           \A j \in SameLogicalColumn(last.key) :
               CachedChunk(j) = Bytes(source[TableKeyOf(j)], j)
    /\ \A k \in AllChunkKeys :
           isVarLenDataKey(k) => (IsCached(k) <=> IsCached(IndexKeyOf(k)))

\* A miss for an index key has cached the whole fanout set.
C4_Witness ==
    /\ is_cache_enabled_
    /\ FetchReturned
    /\ ~last.cached
    /\ isVarLenKey(last.key)
    /\ ~isVarLenDataKey(last.key)
    /\ Cardinality(SameLogicalColumn(last.key)) > 2

\* C5: a fetchBuffer that hits the cache delivers the cached bytes, creates no
\* wrapper, calls neither populate-metadata nor populate-buffers nor
\* cacheTableChunks, and leaves the wrappers map and the cache as they were.
C5_HitIsReadOnly ==
    [][(is_cache_enabled_ /\ last'.op = "fetchBuffer" /\ last'.cached) =>
          /\ last'.status = "ok"
          /\ last'.out # NoBuf
          /\ last'.out = getCachedChunkIfExists(foreign_storage_cache_, last'.key)
          /\ ~last'.created
          /\ last'.n_metadata = 0
          /\ last'.n_restore = 0
          /\ last'.n_buffers = 0
          /\ last'.n_promote = 0
          /\ UNCHANGED <<data_wrapper_map_, foreign_storage_cache_>>]_vars

\* A hit on a chunk recovered from disk after a restart: no wrapper exists.
C5_Witness ==
    /\ is_cache_enabled_
    /\ last.op = "fetchBuffer"
    /\ last.cached
    /\ data_wrapper_map_[TableKeyOf(last.key)] = NoWrapper

\* C6: with the cache enabled, getChunkMetadataVecForKeyPrefix returns the
\* metadata without creating a wrapper or running a wrapper call when the
\* table's metadata is cached, or no wrapper exists and recoverCacheForTable
\* succeeds (it then adds no chunk to the cache either); otherwise it makes
\* sure a wrapper exists and runs populate-metadata, and on success serialize
\* and cacheMetadataVec with the scanned entries.
C6_MetadataWithoutWrapper ==
    [][(is_cache_enabled_ /\ last'.op = "getChunkMetadataVecForKeyPrefix") =>
          LET t == last'.key
              fsc == foreign_storage_cache_
              is_cached == hasCachedMetadataForKeyPrefix(fsc, t)
              recovers == /\ data_wrapper_map_[t] = NoWrapper
                          /\ recoverCacheForTableSucceeds(fsc, t)
          IN IF is_cached \/ recovers
             THEN /\ last'.status = "ok"
                  /\ last'.n_returned > 0
                  /\ ~last'.created
                  /\ last'.n_metadata = 0
                  /\ last'.n_serialize = 0
                  /\ last'.metadata_added = 0
                  /\ data_wrapper_map_' = data_wrapper_map_
                  /\ foreign_storage_cache_'.cached_chunks_ = fsc.cached_chunks_
                  /\ foreign_storage_cache_'.cached_metadata_ = fsc.cached_metadata_
             ELSE /\ last'.n_metadata = 1
                  /\ last'.created = (data_wrapper_map_[t] = NoWrapper)
                  /\ data_wrapper_map_'[t] # NoWrapper
                  /\ last'.status = "ok" =>
                         /\ last'.n_serialize = 1
                         /\ last'.metadata_added = last'.n_returned
                         /\ \A k \in ReportedBy(t, source[t].frags) :
                                foreign_storage_cache_'.cached_metadata_[k] =
                                    Metadata(source[t], k)]_vars

\* After a restart the metadata was recovered from the cache directory and no
\* wrapper exists.
C6_Witness ==
    /\ is_cache_enabled_
    /\ last.op = "getChunkMetadataVecForKeyPrefix"
    /\ last.recovered
    /\ last.n_returned > 0
    /\ data_wrapper_map_[last.key] = NoWrapper

\* A non-evicting ALL-mode refresh of a table has returned without error.
AllRefreshReturns ==
    /\ is_cache_enabled_
    /\ last'.op = "refreshTable"
    /\ ~last'.evict
    /\ last'.status = "ok"
    /\ ~append_mode[last'.key]

\* C7: after a successful non-evicting ALL-mode refresh the cached chunks of
\* the table are a subset of those cached when the refresh began, each holding
\* the bytes the wrapper produces from the source as it is at refresh time.
C7_WarmSubsetRefreshed ==
    [][AllRefreshReturns =>
          LET t == last'.key
              warm == getCachedChunksForKeyPrefix(foreign_storage_cache_, t)
              after == getCachedChunksForKeyPrefix(foreign_storage_cache_', t)
          IN /\ after \subseteq warm
             /\ \A k \in after :
                    getCachedChunkIfExists(foreign_storage_cache_', k) =
                        Bytes(source[t], k)]_vars

\* An ALL refresh re-populated some of the warm chunks and left others cold.
C7_Witness ==
    /\ is_cache_enabled_
    /\ last.op = "refreshTable"
    /\ ~last.evict
    /\ last.status = "ok"
    /\ ~append_mode[last.key]
    /\ last.chunks_added > 0
    /\ last.chunks_added < last.n_warm

\* What C8 says of each key of the table after an ALL refresh; a warm key the
\* new scan still reports keeps its chunk when keeps_warm holds.
ExactlyTheNewScan(t, keeps_warm) ==
    LET fsc == foreign_storage_cache_
        new == foreign_storage_cache_'
        scan == ScanResult(t, source[t])
    IN /\ \A m \in TableMetaKeys(t) :
              IF m \in DOMAIN scan
              THEN isMetadataCached(new, m) /\ new.cached_metadata_[m] = scan[m]
              ELSE ~isMetadataCached(new, m)
       /\ \A k \in TableChunkKeys(t) :
              LET warm == getCachedChunkIfExists(fsc, k) # NoBuf
                  reported == MetaKeyOf(k) \in DOMAIN scan
                  chunk == getCachedChunkIfExists(new, k) # NoBuf
              IN /\ (warm /\ ~reported) => ~chunk
                 /\ (~warm /\ reported) => ~chunk
                 /\ (warm /\ reported /\ keeps_warm) => chunk

AppendRefreshReturns ==
    /\ is_cache_enabled_
    /\ last'.op = "refreshTable"
    /\ ~last'.evict
    /\ append_mode[last'.key]

\* C9: an APPEND-mode refresh leaves every cached chunk and every cached
\* metadata entry of a fragment below last_frag_id exactly as it was.
C9_BelowLastFragUntouched ==
    [][AppendRefreshReturns =>
          \A k \in TableChunkKeys(last'.key) :
              FragmentOf(k) < last'.last_frag_id =>
                  /\ foreign_storage_cache_'.cached_chunks_[k] =
                         foreign_storage_cache_.cached_chunks_[k]
                  /\ foreign_storage_cache_'.cached_metadata_[MetaKeyOf(k)] =
                         foreign_storage_cache_.cached_metadata_[MetaKeyOf(k)]]_vars

\* An APPEND refresh with last_frag_id > 0 has kept a chunk of an earlier
\* fragment whose bytes come from an older version of the source.
C9_Witness ==
    /\ is_cache_enabled_
    /\ last.op = "refreshTable"
    /\ ~last.evict
    /\ last.status = "ok"
    /\ append_mode[last.key]
    /\ last.chunks_added > 0
    /\ \E k \in TableChunkKeys(last.key) :
           /\ FragmentOf(k) < last.last_frag_id
           /\ IsCached(k)
           /\ CachedChunk(k) # Bytes(source[last.key], k)

\* C10: a successful APPEND-mode refresh of a table with F_old fragments of
\* cached metadata over a source of F_new >= F_old fragments takes
\* last_frag_id = F_old - 1, re-caches the scanned metadata of the fragments
\* from last_frag_id on (F_new - F_old + 1 entries per column) and re-populates
\* exactly the warm chunks of fragment last_frag_id.
C10_AppendRecachesFromLastFrag ==
    [][(AppendRefreshReturns /\ last'.status = "ok") =>
          LET t == last'.key
              fsc == foreign_storage_cache_
              new == foreign_storage_cache_'
              F_old == Cardinality(FragmentsOf(
                           DOMAIN getCachedMetadataVecForKeyPrefix(fsc, t)))
              F_new == source[t].frags
              warm == getCachedChunksForKeyPrefix(fsc, t)
              redone == {k \in warm : FragmentOf(k) >= F_old - 1}
          IN (F_old >= 1 /\ F_new >= F_old) =>
                /\ last'.last_frag_id = F_old - 1
                /\ last'.metadata_added = (F_new - F_old + 1) * Cardinality(Columns)
                /\ \A m \in TableMetaKeys(t) :
                       (FragmentOf(m) >= F_old - 1 /\ FragmentOf(m) < F_new) =>
                           new.cached_metadata_[m] = Metadata(source[t], m)
                /\ last'.chunks_added = Cardinality(redone)
                /\ \A k \in redone :
                       /\ FragmentOf(k) = F_old - 1
                       /\ getCachedChunkIfExists(new, k) = Bytes(source[t], k)
                /\ getCachedChunksForKeyPrefix(new, t) = warm]_vars

\* An APPEND refresh over a grown source has added the metadata of two
\* fragments and re-populated warm chunks.
C10_Witness ==
    /\ is_cache_enabled_
    /\ last.op = "refreshTable"
    /\ ~last.evict
    /\ last.status = "ok"
    /\ append_mode[last.key]
    /\ last.last_frag_id + 2 = source[last.key].frags
    /\ last.metadata_added = 2 * Cardinality(Columns)
    /\ last.chunks_added > 0

\* A non-evicting refresh with the cache enabled returns.
RefreshReturns ==
    /\ is_cache_enabled_
    /\ last'.op = "refreshTable"
    /\ ~last'.evict

RefreshScanFails == RefreshReturns /\ last'.failed_call = "populateChunkMetadata"

RefreshRepopulateFails == RefreshReturns /\ last'.failed_call = "populateChunkBuffers"

\* C11: when populate-metadata fails during a non-evicting refresh nothing has
\* been evicted: the stored chunks and metadata of the cache are the same as
\* before, every chunk and metadata entry the cache reported before is still
\* reported with the same contents, and no refresh is recorded for the table.
C11_FailedScanEvictsNothing ==
    [][RefreshScanFails =>
          LET t == last'.key
              fsc == foreign_storage_cache_
              new == foreign_storage_cache_'
          IN /\ new.cached_chunks_ = fsc.cached_chunks_
             /\ new.cached_metadata_ = fsc.cached_metadata_
             /\ \A k \in AllChunkKeys :
                    getCachedChunkIfExists(fsc, k) # NoBuf =>
                        getCachedChunkIfExists(new, k) = getCachedChunkIfExists(fsc, k)
             /\ \A m \in AllMetaKeys :
                    isMetadataCached(fsc, m) => isMetadataCached(new, m)
             /\ last'.n_buffers = 0
             /\ last'.n_promote = 0
             /\ since_refresh' = since_refresh]_vars

\* A refresh whose scan failed has left a warm chunk of an older version of
\* the source in the cache.
C11_Witness ==
    /\ is_cache_enabled_
    /\ last.op = "refreshTable"
    /\ ~last.evict
    /\ last.failed_call = "populateChunkMetadata"
    /\ \E k \in TableChunkKeys(last.key) :
           /\ IsCached(k)
           /\ CachedChunk(k) # Bytes(source[last.key], k)

\* C12: a populate-metadata failure during a non-evicting refresh reaches the
\* caller as the wrapper's own error, not wrapped as POST_EVICTION_REFRESH; an
\* APPEND refresh over a source smaller than what the wrapper has read fails
\* this way.
C12_ScanErrorUnwrapped ==
    [][RefreshReturns =>
          LET t == last'.key
          IN /\ last'.failed_call = "populateChunkMetadata" => last'.status = "error"
             /\ (append_mode[t] /\ data_wrapper_map_[t].scanned > source[t].frags) =>
                    /\ last'.failed_call = "populateChunkMetadata"
                    /\ last'.status = "error"]_vars

\* An APPEND refresh over a shrunk source has failed in the scan.
C12_Witness ==
    /\ is_cache_enabled_
    /\ last.op = "refreshTable"
    /\ ~last.evict
    /\ last.status = "error"
    /\ append_mode[last.key]
    /\ data_wrapper_map_[last.key].scanned > source[last.key].frags

\* The scanned metadata the refresh has re-cached.
NewMetadataCached(t, last_frag_id) ==
    LET scan == ScanResult(t, source[t])
    IN \A m \in DOMAIN scan :
           RecachesMetadata(append_mode[t], FragmentOf(m), last_frag_id) =>
               /\ isMetadataCached(foreign_storage_cache_', m)
               /\ foreign_storage_cache_'.cached_metadata_[m] = scan[m]

C14_EvictThenRematerialize ==
    [][/\ (is_cache_enabled_ /\ last'.op = "refreshTable" /\ last'.evict) =>
              LET t == last'.key
                  new == foreign_storage_cache_'
              IN /\ \A k \in TableChunkKeys(t) : getCachedChunkIfExists(new, k) = NoBuf
                 /\ \A m \in TableMetaKeys(t) : ~isMetadataCached(new, m)
                 /\ last'.n_metadata = 0
                 /\ last'.n_buffers = 0
                 /\ last'.n_restore = 0
                 /\ last'.n_serialize = 0
                 /\ ~last'.created
                 /\ data_wrapper_map_' = data_wrapper_map_
       /\ (/\ is_cache_enabled_
           /\ last'.op = "fetchBuffer"
           /\ last'.status = "ok"
           /\ ~IsCached(last'.key)) =>
              /\ ~last'.cached
              /\ last'.n_buffers = 1
              /\ last'.out = Bytes(source[TableKeyOf(last'.key)], last'.key)]_vars

\* An evicting refresh has emptied the cache of a table whose metadata had
\* been scanned and cached.
C14_Witness ==
    /\ is_cache_enabled_
    /\ last.op = "refreshTable"
    /\ last.evict
    /\ last_cached_scan[last.key] > 0
    /\ data_wrapper_map_[last.key] # NoWrapper

\* The state the manager and the cache hold for table t.
WrapperOf(wrappers, t) == wrappers[t]

StagingOf(temp, t) == [k \in TableChunkKeys(t) |-> temp[k]]

CacheOf(fsc, t) ==
    [chunks   |-> [k \in TableChunkKeys(t) |-> fsc.cached_chunks_[k]],
     metadata |-> [m \in TableMetaKeys(t) |-> fsc.cached_metadata_[m]],
     file     |-> fsc.wrapper_file[t],
     loaded   |-> fsc.loaded[t]]

HasNoState(wrappers, temp, fsc, t) ==
    /\ WrapperOf(wrappers, t) = NoWrapper
    /\ StagingOf(temp, t) = StagingOf([k \in AllChunkKeys |-> NoBuf], t)
    /\ CacheOf(fsc, t) = CacheOf(EmptyCache, t)

\* C15: removeTableRelatedDS(db, t) leaves no wrapper, no cached chunk or
\* metadata and no staging entry of table (db, t), and leaves the wrapper, the
\* cached entries and the staging entries of every other table as they were;
\* for a table with no state nothing changes.
C15_DropRemovesExactlyTheTable ==
    [][last'.op = "removeTableRelatedDS" =>
          LET t == last'.key
          IN /\ data_wrapper_map_'[t] = NoWrapper
             /\ \A k \in TableChunkKeys(t) :
                    /\ temp_chunk_buffer_map_'[k] = NoBuf
                    /\ is_cache_enabled_ =>
                           /\ getCachedChunkIfExists(foreign_storage_cache_', k) = NoBuf
                           /\ foreign_storage_cache_'.cached_chunks_[k] = NoBuf
             /\ \A m \in TableMetaKeys(t) :
                    is_cache_enabled_ =>
                        /\ ~isMetadataCached(foreign_storage_cache_', m)
                        /\ foreign_storage_cache_'.cached_metadata_[m] = NoBuf
             /\ \A u \in Tables \ {t} :
                    /\ WrapperOf(data_wrapper_map_', u) = WrapperOf(data_wrapper_map_, u)
                    /\ StagingOf(temp_chunk_buffer_map_', u) =
                           StagingOf(temp_chunk_buffer_map_, u)
                    /\ CacheOf(foreign_storage_cache_', u) =
                           CacheOf(foreign_storage_cache_, u)
             /\ HasNoState(data_wrapper_map_, temp_chunk_buffer_map_,
                           foreign_storage_cache_, t) =>
                    /\ data_wrapper_map_' = data_wrapper_map_
                    /\ temp_chunk_buffer_map_' = temp_chunk_buffer_map_
                    /\ foreign_storage_cache_' = foreign_storage_cache_]_vars

\* A table has been dropped while the table with the next id has a wrapper,
\* and staging entries or cached chunks of its own.
C15_Witness ==
    /\ last.op = "removeTableRelatedDS"
    /\ last.key = <<1, 1>>
    /\ data_wrapper_map_[<<1, 2>>] # NoWrapper
    /\ \/ \E k \in TableChunkKeys(<<1, 2>>) : temp_chunk_buffer_map_[k] # NoBuf
       \/ \E k \in TableChunkKeys(<<1, 2>>) : IsCached(k)

\* A call of the manager returns (a restart or a change of the source is not
\* a call).
CallReturns == last = NoCall /\ last' # NoCall

\* The call that returns drops table t or refreshes it with evict = true.
DropsOrEvicts(t) ==
    /\ last'.key = t
    /\ \/ last'.op = "removeTableRelatedDS"
       \/ last'.op = "refreshTable" /\ last'.evict

\* C16: a table's wrapper is created by a metadata scan or a chunk-fetch miss
\* for the table (a refresh scans too), stays in the wrappers map through every
\* other call, and is gone from the map after removeTableRelatedDS and after
\* refreshTable(evict = true) for the table.
C16_WrapperLifecycle ==
    [][CallReturns =>
          \A t \in Tables :
              /\ (data_wrapper_map_[t] = NoWrapper /\ data_wrapper_map_'[t] # NoWrapper) =>
                     /\ last'.key = t \/ (last'.op = "fetchBuffer" /\ TableKeyOf(last'.key) = t)
                     /\ last'.created
                     /\ last'.op \in {"getChunkMetadataVecForKeyPrefix", "fetchBuffer",
                                      "refreshTable"}
                     /\ last'.op = "fetchBuffer" => ~last'.cached
              /\ (data_wrapper_map_[t] # NoWrapper /\ ~DropsOrEvicts(t)) =>
                     data_wrapper_map_'[t] # NoWrapper
              /\ DropsOrEvicts(t) => data_wrapper_map_'[t] = NoWrapper]_vars

\* A fetchBuffer call fails in populate-buffers.
FetchPopulateFails ==
    /\ last'.op = "fetchBuffer"
    /\ last'.failed_call = "populateChunkBuffers"

\* C17: when fetchBuffer fails because populate-buffers fails, the destination
\* buffer is as it was before the call or holds the whole chunk, with the
\* cache enabled and with the cache disabled.
C17_NoPartialFillOnError ==
    [][FetchPopulateFails =>
          \/ last'.out = NoBuf
          \/ last'.out = Bytes(source[TableKeyOf(last'.key)], last'.key)]_vars

\* C18: when populate-buffers fails inside fetchBuffer the staging map holds
\* no entry of the fragment being fetched afterwards, and the chunks and the
\* metadata the cache reports are the same as before the call.
C18_FailedFetchCleansStaging ==
    [][FetchPopulateFails =>
          LET t == TableKeyOf(last'.key)
              fsc == foreign_storage_cache_
              new == foreign_storage_cache_'
          IN /\ \A k \in TableChunkKeys(t) :
                    FragmentOf(k) = FragmentOf(last'.key) =>
                        temp_chunk_buffer_map_'[k] = NoBuf
             /\ \A k \in AllChunkKeys :
                    getCachedChunkIfExists(new, k) = getCachedChunkIfExists(fsc, k)
             /\ \A m \in AllMetaKeys :
                    isMetadataCached(new, m) = isMetadataCached(fsc, m)]_vars

\* ---- C19, C20: calls running concurrently (SpecConcurrent)
Fetch(i) == in_flight.fetch[i]

\* The call has copied into its destination buffer.
HasCopied(i) == Fetch(i).pc \in {"promote", "done"}

\* The bytes a wrapper produces for a key, from whichever version of the source.
WrapperBytes(k) == {BytesOfVersion(v, k) : v \in Versions}

SameKeyFetches(i, j) ==
    /\ i # j
    /\ Fetch(i).pc # "idle"
    /\ Fetch(j).pc # "idle"
    /\ Fetch(i).chunk_key = Fetch(j).chunk_key

\* C19: two fetchBuffer calls for the same chunk key run concurrently with
\* the cache enabled and no refresh: whatever the interleaving, a call that
\* has copied holds the wrapper's bytes for the key in its destination buffer
\* (never the contents of an empty or half-written buffer), and once both
\* have returned the chunk is cached with those bytes.
C19_ConcurrentFetchesSameKey ==
    in_flight.refresh.pc = "idle" =>
        \A i, j \in FetchThreads :
            SameKeyFetches(i, j) =>
                /\ HasCopied(i) => Fetch(i).dst \in WrapperBytes(Fetch(i).chunk_key)
                /\ (Fetch(i).pc = "done" /\ Fetch(j).pc = "done") =>
                       CachedChunk(Fetch(i).chunk_key) \in WrapperBytes(Fetch(i).chunk_key)

\* C20: one fetchBuffer call runs while a non-evicting refresh of its table
\* is somewhere between its start and its end: the call's destination buffer
\* gets the bytes that were cached when the refresh started or the bytes the
\* wrapper populates from the source, never the contents of an unpopulated,
\* half-populated or freed buffer.
C20_FetchDuringRefresh ==
    \A i \in FetchThreads :
        ( /\ HasCopied(i)
          /\ \A j \in FetchThreads \ {i} : Fetch(j).pc = "idle"
          /\ in_flight.refresh.pc # "idle"
          /\ in_flight.refresh.table = TableKeyOf(Fetch(i).chunk_key) )
        => Fetch(i).dst \in
              {in_flight.refresh.cached_before[Fetch(i).chunk_key],
               Bytes(source[TableKeyOf(Fetch(i).chunk_key)], Fetch(i).chunk_key)}
              \ {NoBuf}

\* ---- C23: the refresh stops at the one-hour budget
RefreshStoppedAtBudget ==
    /\ last.op = "refreshTable"
    /\ ~last.evict
    /\ last.timed_out

\* Warm keys the new scan still reports that the stopped refresh did not reach.
LeftCold(t) == {k \in last.warm : HasMetadata(k) /\ k \notin last.populated}

\* A fetch of the key with no wrapper failure goes through the miss path and
\* delivers the wrapper's bytes.
FetchMaterializes(k) ==
    /\ fetchBuffer(k, FALSE, FALSE, FALSE)
    /\ last'.status = "ok"
    /\ ~last'.cached
    /\ last'.n_buffers = 1
    /\ last'.n_promote = 1
    /\ last'.out = Bytes(source[TableKeyOf(k)], k)

\* C23: a refresh that found the budget exceeded at a fragment boundary
\* returned without error; the chunks it promoted are exactly the keys it had
\* passed to populate-buffers, each with the wrapper's bytes; the warm keys it
\* did not reach (there are some: it made no further populate-buffers call)
\* keep their metadata, have no cached chunk, and a fetchBuffer for any of
\* them succeeds through the miss path.
C23_StopsAtBudget ==
    RefreshStoppedAtBudget =>
        LET t == last.key
        IN /\ last.status = "ok"
           /\ last.n_promote = 1
           /\ last.chunks_added = Cardinality(last.populated)
           /\ \A k \in last.populated : CachedChunk(k) = Bytes(source[t], k)
           /\ \A k \in getCachedChunksForKeyPrefix(foreign_storage_cache_, t) :
                 \/ k \in last.populated
                 \/ append_mode[t] /\ FragmentOf(k) < last.last_frag_id
           /\ LeftCold(t) # {}
           /\ \A k \in LeftCold(t) :
                 /\ HasMetadata(k)
                 /\ ~IsCached(k)
                 /\ ENABLED FetchMaterializes(k)

\* A refresh of two warm fragments stopped after the first one.
C23_Witness ==
    /\ RefreshStoppedAtBudget
    /\ last.populated # {}
    /\ \E k \in LeftCold(last.key) : FragmentOf(k) = 1

\* ---- C29, C30: recoverDataWrapperFromDisk
\* The call that returns ran recoverDataWrapperFromDisk: fetchBuffer does for
\* a wrapper it has just created, a non-evicting refresh of an APPEND table
\* too.
RecoverCalled ==
    /\ CallReturns
    /\ last'.created
    /\ \/ last'.op = "fetchBuffer"
       \/ last'.op = "refreshTable" /\ append_mode[last'.key]

RecoverTable == IF last'.op = "fetchBuffer" THEN TableKeyOf(last'.key) ELSE last'.key

MetadataAvailable(fsc, t) ==
    hasCachedMetadataForKeyPrefix(fsc, t) \/ recoverCacheForTableSucceeds(fsc, t)

WrapperFileExists(fsc, t) == fsc.wrapper_file[t] # 0

C30_RecoverIsAtomic ==
    [][(RecoverCalled /\ last'.op = "fetchBuffer" /\ ~last'.recovered) =>
          getCachedMetadataVecForKeyPrefix(foreign_storage_cache_', RecoverTable) =
          getCachedMetadataVecForKeyPrefix(foreign_storage_cache_, RecoverTable)]_vars

\* ---- C24: the one-hour budget
\* C24: whatever the populate calls take, no populateChunkBuffers call of a
\* further fragment is started once the wall clock has reached 3600 seconds
\* since re-population began.
C24_NoPopulateAfterBudget ==
    \A i \in 1..Len(refresh_timer.started_at) :
        refresh_timer.started_at[i] < BudgetInTicks

\* ---- C25, C26, C27: the refresh scheduler
\* The step is a refresh made by the scheduler's thread.
ScheduledRefreshStep ==
    /\ last = NoCall
    /\ last'.op = "refreshTable"
    /\ scheduler' # scheduler

C26_RefreshTimes ==
    [][(last = NoCall /\ last'.op = "refreshTable") =>
          LET t == last'.key
              before == foreign_tables[t]
              after == foreign_tables'[t]
              n == before.refresh_interval.count
              unit == before.refresh_interval.unit
              seconds == CASE unit = "S" -> n
                           [] unit = "H" -> n * 3600
                           [] unit = "D" -> n * 86400
                           [] OTHER -> 0
          IN /\ after.last_refresh_time = now
             /\ IF ScheduledRefreshStep /\ unit # "none"
                THEN /\ after.next_refresh_time = after.last_refresh_time + seconds
                     /\ after.next_refresh_time >= before.next_refresh_time + seconds
                     /\ after.next_refresh_time > before.next_refresh_time
                ELSE after.next_refresh_time = NULL_REFRESH_TIME]_vars

\* A table with an interval in days has been refreshed by the scheduler.
C26_Witness ==
    /\ last.op = "refreshTable"
    /\ foreign_tables[last.key].timing = "SCHEDULED"
    /\ foreign_tables[last.key].refresh_interval.unit = "D"
    /\ foreign_tables[last.key].last_refresh_time = now
    /\ foreign_tables[last.key].next_refresh_time =
           now + foreign_tables[last.key].refresh_interval.count * 86400

isRunning == scheduler.is_scheduler_running_

\* C27: when stop() returns isRunning() is false and the thread is gone; no
\* scheduled refresh is made while isRunning() is false, and isRunning()
\* becomes true again only by start(), which makes it true.
C27_NoRefreshWhileStopped ==
    [][/\ (scheduler.stop_called /\ ~scheduler'.stop_called) =>
              (~isRunning' /\ scheduler'.thread = "none")
       /\ ScheduledRefreshStep => (isRunning /\ scheduler.thread = "scanning")
       /\ (~scheduler.stop_called /\ scheduler.thread = "none") => ~ScheduledRefreshStep
       /\ (~isRunning /\ isRunning') => scheduler'.n_starts = scheduler.n_starts + 1
       /\ scheduler'.n_starts # scheduler.n_starts => isRunning']_vars

\* After stop() and a second start() the scheduler has refreshed a due table.
C27_Witness ==
    /\ scheduler.n_starts = 2
    /\ isRunning
    /\ last.op = "refreshTable"
    /\ last.key = <<1, 1>>
    /\ foreign_tables[last.key].timing = "SCHEDULED"
    /\ scheduler.remaining = Tail(ForeignTablesForRefresh)

\* ---- C21, C22, C28: locks of the wrappers map and the staging map
\* C21: no manager lock is held while a wrapper method runs: at every call
\* of a wrapper method the calling thread holds neither the wrappers lock
\* nor the staging lock.
C21_NoLockAcrossWrapperCall ==
    \A i \in FetchThreads : threads[i].held_at_call = {}

\* C22: every read and every write of the wrappers map is made by a thread
\* that holds the wrappers lock (shared for a lookup, exclusive for insert
\* and erase), so no lookup runs while another thread is inside an insertion
\* or erasure.
C22_MapAccessUnderLock ==
    \A i \in FetchThreads : threads[i].access \in {"none", "guarded"}

\* The step in which thread i comes to the construction statement of
\* createDataWrapperIfNotExists.
AtInsert(i) ==
    /\ threads[i].op # "none"
    /\ ManagerOperation(threads[i].op)[threads[i].pc].do = "insert"
    /\ threads'[i] # threads[i]

\* C28: of the createDataWrapperIfNotExists calls for a table, a call
\* constructs the wrapper and returns true exactly when the map holds no
\* wrapper for the table at that moment, and returns false leaving the map
\* as it is otherwise; for an unknown wrapper type it throws and the map is
\* unchanged.
C28_CreateIfAbsent ==
    [][\A i \in FetchThreads :
          AtInsert(i) =>
             LET t == threads[i].table
                 supported == foreign_tables[t] \in {"CSV", "PARQUET"}
             IN IF data_wrapper_map_[t].exists
                THEN /\ threads'[i].created = "false"
                     /\ data_wrapper_map_' = data_wrapper_map_
                ELSE IF supported
                THEN /\ threads'[i].created = "true"
                     /\ data_wrapper_map_'[t].exists
                     /\ \A tb \in Tables \ {t} :
                            data_wrapper_map_'[tb] = data_wrapper_map_[tb]
                ELSE /\ threads'[i].created = "throws"
                     /\ data_wrapper_map_' = data_wrapper_map_]_vars

\* Two calls for one table are in progress: one has constructed the wrapper
\* and returned true, the other has returned false.
C28_Witness ==
    \E i, j \in FetchThreads :
        /\ threads[i].op # "none"
        /\ threads[j].op # "none"
        /\ threads[i].table = threads[j].table
        /\ threads[i].created = "true"
        /\ threads[j].created = "false"
        /\ data_wrapper_map_[threads[i].table].exists

\* ---- C31: which wrapper calls a miss and a refresh make
FetchMissReturns == CallReturns /\ last'.op = "fetchBuffer" /\ ~last'.cached

\* The calls of a fetchBuffer miss; the last conjunct says when
\* populate-buffers is reached.
FetchMissDispatch(populates_after_failed_scan) ==
    FetchMissReturns =>
          LET t == TableKeyOf(last'.key)
              existed == data_wrapper_map_[t] # NoWrapper
              scan_threw == last'.failed_call = "populateChunkMetadata"
          IN /\ ~existed =>
                    /\ last'.n_recover = 1
                    /\ last'.n_metadata = (IF last'.recovered THEN 0 ELSE 1)
                    /\ last'.recovered => data_wrapper_map_'[t].restored
             /\ existed =>
                    /\ last'.n_recover = 0
                    /\ last'.n_metadata = 0
             /\ last'.optional_buffers = {}
             /\ last'.n_buffers =
                    (IF scan_threw /\ ~populates_after_failed_scan THEN 0 ELSE 1)

\* A non-evicting refresh tries to recover the wrapper from disk exactly when
\* it has just created it and the table is in APPEND mode.
RefreshRecoversNewAppendWrapper ==
    (CallReturns /\ last'.op = "refreshTable" /\ ~last'.evict) =>
          LET t == last'.key
              newly_created == /\ data_wrapper_map_[t] = NoWrapper
                               /\ data_wrapper_map_'[t] # NoWrapper
          IN last'.n_recover = (IF newly_created /\ append_mode[t] THEN 1 ELSE 0)

OneFragment(keys) ==
    \A a \in keys : \A b \in keys :
        TableKeyOf(a) = TableKeyOf(b) /\ FragmentOf(a) = FragmentOf(b)

\* C32: every required map the manager passes to populate-buffers, from
\* fetchBuffer and from the re-population of a refresh, has keys of one
\* (db, table, fragment) only, and the map of a fetchBuffer call contains
\* the requested key, whichever chunk of the logical column was requested:
\* the CHECK of line 89 holds.
C32_RequiredMapWellFormed ==
    [][CallReturns =>
          /\ \A i \in 1..Len(last'.calls) :
                 /\ last'.calls[i] # {}
                 /\ OneFragment(last'.calls[i])
          /\ (last'.op = "fetchBuffer" /\ last'.n_buffers = 1) =>
                 /\ Len(last'.calls) = 1
                 /\ last'.key \in last'.calls[1]]_vars

\* A fetch of the index chunk of the variable-length physical column passes
\* a map with all three chunks of the logical column.
C32_Witness ==
    /\ last.op = "fetchBuffer"
    /\ last.key = <<1, 1, 2, 0, 2>>
    /\ last.n_buffers = 1
    /\ Cardinality(last.calls[1]) = 3

\* ---- C33: one fanout set, fetched chunk by chunk
\* The staged keys of the fanout set of k.
StagedOf(k) == {s \in FanoutKeys(k) : temp_chunk_buffer_map_[s] # NoBuf}

\* C33: with the cache disabled and one call after another, the first fetch
\* of a fanout set makes the one populate-buffers call of the set, writes the
\* requested chunk into dst and stages every sibling; a later fetch of a
\* sibling is served from the staging map without a wrapper call and erases
\* its entry; once every key was fetched the staging map holds no key of the
\* set.
C33_OnePopulatePerFanoutSet ==
    /\ \A k \in QueriedChunkKeys :
          LET asked == history.fetched \cap FanoutKeys(k)
              n_populate == history.n_populate[FragmentOf(k)]
          IN /\ n_populate = (IF asked = {} THEN 0 ELSE 1)
             /\ last = NoCall =>
                    StagedOf(k) = (IF asked = {} THEN {} ELSE FanoutKeys(k) \ asked)
    /\ last.op = "fetchBuffer" =>
          LET k == last.key
              first == history.fetched \cap FanoutKeys(k) = {}
              bytes == Bytes(source[TableKeyOf(k)], k)
          IN /\ last.status = "ok"
             /\ last.out = bytes
             /\ last.from_map = ~first
             /\ last.n_buffers = (IF first THEN 1 ELSE 0)
             /\ ~first => last.n_metadata = 0
             /\ temp_chunk_buffer_map_[k] = NoBuf
             /\ first => \A s \in FanoutKeys(k) \ {k} :
                             temp_chunk_buffer_map_[s] = Bytes(source[TableKeyOf(k)], s)

\* Every key of the fanout set of fragment 0 was fetched: one
\* populate-buffers call was made and nothing is left staged.
C33_Witness ==
    /\ last = NoCall
    /\ FanoutKeys(<<1, 1, 1, 0>>) \subseteq history.fetched
    /\ history.n_populate[0] = 1
    /\ StagedOf(<<1, 1, 1, 0>>) = {}

\* ---- C34: when the source buffer is the destination buffer
FetchDelivers == CallReturns /\ last'.op = "fetchBuffer" /\ last'.status = "ok"

\* The requested key has no sibling in its fanout set.
NoSibling(k) == FanoutKeys(k) = {k}

\* The bytes are delivered once: written by the wrapper into dst, or copied
\* into it from another buffer.
DeliveredOnce ==
    /\ last'.src_is_dst = ~last'.copied
    /\ last'.out # NoBuf

FragmentOfCall(keys) == FragmentOf(CHOOSE k \in keys : TRUE)

\* C35: whatever the order in which the cache lists the warm chunks, a
\* refresh that re-populates to the end flushes every fragment it refreshes
\* with exactly one populate-buffers call, which holds all the fragment's
\* keys to refresh, and flushes the fragments in increasing fragment id.
C35_OneFlushPerFragment ==
    [][(/\ CallReturns
        /\ last'.op = "refreshTable"
        /\ last'.status = "ok"
        /\ ~last'.timed_out) =>
          LET calls == last'.calls
          IN /\ \A i \in 1..Len(calls) :
                    calls[i] = {k \in last'.populated :
                                   FragmentOf(k) = FragmentOfCall(calls[i])}
             /\ \A i \in 1..Len(calls) : \A j \in 1..Len(calls) :
                    i < j => FragmentOfCall(calls[i]) < FragmentOfCall(calls[j])]_vars

\* ---- C36: a handler that receives an error starts nothing
\* An asynchronous read or write is outstanding on the connection.
OperationOutstanding(c) == c.pc \in {"reading", "writing", "written"}

\* C36: when handleRead or handleWrite gets an error it starts no read and
\* no write and processes no request, and from then on the connection has no
\* asynchronous operation outstanding.
C36_ErrorStartsNothing ==
    [][/\ (~connection.errored /\ connection'.errored) =>
              /\ ~OperationOutstanding(connection')
              /\ connection'.n_requests = connection.n_requests
              /\ connection'.n_writes = connection.n_writes
       /\ connection.errored => ~OperationOutstanding(connection')]_vars

\* A request was processed and its reply written before the error.
C36_Witness ==
    /\ connection.errored
    /\ connection.n_requests > 0
    /\ connection.n_writes > 0

\* ---- C40: what an asynchronous write refers to is alive
\* C40: while a write is outstanding, and when handleWrite runs, the
\* sub-buffer the write reads from has not been popped and the OutputBuffer
\* the handler is bound to has not been destroyed, and the bytes written are
\* the sub-buffer's.
C40_WriteBuffersAlive ==
    /\ connection.pc \in {"writing", "written"} =>
          /\ ~connection.write_buffer.freed
          /\ connection.output_alive
    /\ connection.pc = "written" => connection.sent = connection.write_buffer.bytes

\* ---- C37: populate-buffers only on a primed wrapper
\* C37: with fetchBuffer calls of several threads missing for the same
\* table, no thread calls populateChunkBuffers on the table's wrapper before
\* the thread that created the wrapper has restored it or has finished its
\* populateChunkMetadata.
C37_PopulateOnlyWhenPrimed ==
    \A i \in FetchThreads : \A j \in FetchThreads \ {i} :
        (/\ threads[i].op = "fetchBuffer"
         /\ threads[j].op = "fetchBuffer"
         /\ threads[j].table = threads[i].table
         /\ threads[j].created = "true") => ~threads[i].called_unprimed

\* ---- C38, C39: staging buffers in use by a thread
\* C38: with the cache disabled, a staging buffer a call points to (in the
\* required map it gave to populateChunkBuffers, or found by its staging
\* probe and being copied) is not destroyed or replaced in the staging map by
\* another fetchBuffer of the fragment or by refreshTable /
\* removeTableRelatedDS while the call still uses it.
C38_HeldBufferNotDestroyed ==
    \A i \in FetchThreads : in_flight.fetch[i].freed = {}

\* C39: with the cache disabled, an entry the staging probe finds has been
\* filled by the wrapper: no fetch copies from a staging buffer that another
\* thread inserted and whose populateChunkBuffers call has not returned.
C39_ProbeFindsPopulated ==
    \A i \in FetchThreads :
        in_flight.fetch[i].pc \in {"copy", "erase"} =>
            in_flight.fetch[i].found.buf = "bytes"

====
